---- MODULE Spec2Model ----
(***************************************************************************)
(* A model of the IME-composition coordination layer of motea:             *)
(*   - the Debounced Persistence Scheduler (UnifiedEditorManager on top    *)
(*     of the named-timer registry TimerManager),                          *)
(*   - the DOM Mutation Restorer (restoreDOM, both generations),           *)
(*   - the Editor Command Bridge (ModernIMEHandler and the IMEFix plugin), *)
(*   - the Page-Leave Guard (useAutoSaveOnLeave, all three generations).   *)
(* Time is a discrete clock `now` in milliseconds; a platform timer fires  *)
(* at its due time, and events that happen at the same instant interleave  *)
(* in every order.                                                         *)
(***************************************************************************)
EXTENDS Integers, Sequences, FiniteSets, TLC

(***************************************************************************)
(* Bounds of the model.                                                    *)
(***************************************************************************)
MaxTime == 600
MaxInflight == 2
MaxBurst == 3
MaxCycles == 4
MaxBatch == 2
MaxRestoreTime == 200
MaxInputs == 2
MaxFreeInputs == 1
MaxJobs == 2
MaxCompositions == 2
MaxCalls == 2
MaxTrackTime == 400
MaxText == 3
MaxGateTime == 100
MaxSchedTime == 300
MaxCommands == 2
MaxPrompts == 2
MaxLeaveTime == 700
MaxTeardownTime == 300
MaxPushes == 52
MaxItems == 2

(***************************************************************************)
(* Program constants.                                                      *)
(***************************************************************************)
DebounceDelay == 300

\* The clock advances by a third of the debounce window, or up to the next
\* timer that is due, whichever is sooner.
Quantum == DebounceDelay \div 3

NoteIds == {"A", "B"}
NoNote == ""
Contents == {"a", "b"}
NoContent == ""
NoTimer == [id |-> "none", due |-> -1, content |-> NoContent]

\* The editable element, the nodes that may hang below it, and their kinds.
Root == "R"
Elements == {"p"}
TextNodes == {"t", "u"}
Nodes == Elements \cup TextNodes
Containers == {Root} \cup Elements
Null == "null"
TextValues == {"x", "y"}

\* Update tags Lexical hands to the change listener.
TagSets == {{}, {"history-merge"}, {"content-sync"}, {"selection-change"},
            {"collaboration"}}

VARIABLES
    now,               \* the clock, ms
    composition,       \* "idle" | "active": between compositionstart and compositionend
    noteId,            \* UnifiedEditorManager.noteId
    lastSavedContent,  \* UnifiedEditorManager.lastSavedContent
    tm,                \* TimerManager: activeTimers (the registry) and the platform's pending timers
    inflight,          \* the invocations of options.onSave whose promise is not settled yet
    lastSave,          \* the most recent invocation of options.onSave
    lastChange,        \* the most recent change notification that scheduled a debounced save
    savesSince,        \* debounce-fired invocations of options.onSave since lastChange
    burstLen,          \* length of the run of scheduling changes, each within the debounce window of the previous
    lastOp,            \* the most recent call into the scheduler that is watched: its arguments and what it did
    dom,               \* the children of each container node, in document order
    text,              \* the data of each text node
    cycles,            \* the restoreDOM calls made so far: observer, record queue, timeout, callback
    installed,         \* the beforeinput listeners on the editable element
    useRestoreDOM,     \* forceRestoreDOM || shouldUseRestoreDOM(), fixed at construction
    isComposing,       \* ModernIMEHandler.isComposing
    inputs,            \* beforeinput events dispatched so far
    script,            \* the browser's position in a scripted event sequence
    doc,               \* the editor's document: its characters in order
    selLen,            \* characters selected before the cursor, which is at the end
    lastTr,            \* the most recent transaction dispatched by a restoreDOM callback
    edits,             \* transactions dispatched by restoreDOM callbacks
    guard,             \* which handleRouteChangeStart is subscribed
    dirty,             \* window.saveButtonStatus === 'save'
    isAutoSavingRef,   \* isAutoSavingRef.current
    job,               \* the handleRouteChangeStart call awaiting performAutoSave
    jobs,              \* calls of performAutoSave made by the guard so far
    pendingNav,        \* the route change the router is loading
    arrival,           \* the most recent route change the router completed
    failures,          \* performAutoSave results that were false
    prompts,           \* window.confirm calls
    tracker,           \* which composition state tracker listens: "manager" | "plugin" | "state" | "none"
    trackerState,      \* the tracker's state, and what its most recent update told the subscribers
    trackerTimers,     \* the tracker's pending timers: delayed clears and the typing timer
    compId,            \* compositionstart events so far: the number of the current composition
    wrapper,           \* which guarded callback wraps the underlying one: "simple" | "advanced" | "smart" | "none"
    safe,              \* the guarded callback: isComposingRef, pendingCallRef and its timeout
    runQueue,          \* setTimeout(0) invocations of the underlying callback not run yet
    calls,             \* what became of the calls made to the guarded callback
    block,             \* the text block at the cursor: its type, level and text
    ruleTimers,        \* the 10 ms timers of handleTextInput that are pending
    lastRule,          \* the most recent input rule or heading conversion applied
    lastKey,           \* the most recent keydown the gate has seen
    lastCmd,           \* the most recent command of the editor command bridge and what it returned
    listeners,         \* the tracker's subscribers besides the guarded callback, in subscription order
    leave,             \* the page-leave guard: its refs and timers, the page, and the current prompt
    pluginView,        \* the IME plugin's view: the handler it creates and its deferred initialisation
    destroyed,         \* the components torn down so far, and what they had done by then
    historyState       \* the editor's HistoryState: undoStack and redoStack, and the entries pushed to each

saveVars == <<noteId, lastSavedContent, tm, inflight, lastSave, lastChange, savesSince, burstLen, lastOp>>
domVars == <<dom, text, cycles>>
handlerVars == <<installed, useRestoreDOM, isComposing, inputs>>
editorVars == <<doc, selLen, lastTr, edits>>
imeVars == <<handlerVars, editorVars, script>>
navVars == <<guard, dirty, isAutoSavingRef, job, jobs, pendingNav, arrival, failures, prompts>>
trackVars == <<tracker, trackerState, trackerTimers, compId, wrapper, safe, runQueue, calls>>
gateVars == <<block, ruleTimers, lastRule, lastKey>>
coordVars == <<trackVars, gateVars>>
miscVars == <<historyState>>
restVars == <<lastCmd, listeners, leave, pluginView, destroyed, miscVars>>
vars == <<now, composition, saveVars, domVars, imeVars, navVars, coordVars, restVars>>

NoSave == [content |-> NoContent, noteId |-> NoNote, via |-> "none", composing |-> FALSE]
NoChange == [content |-> NoContent, noteId |-> NoNote, at |-> -1]
NoOp == [op |-> "none", content |-> NoContent, tags |-> {}, same |-> FALSE, effects |-> {},
         note |-> NoNote]

(***************************************************************************)
(* The clock.                                                              *)
(***************************************************************************)
SetMin(S) == CHOOSE x \in S : \A y \in S : x <= y

PendingDues ==
    {t.due : t \in tm.platform}
        \cup {cycles[i].due : i \in {j \in 1..Len(cycles) : cycles[j].timerPending}}
        \cup {t.due : t \in trackerTimers}
        \cup (IF safe.timer >= 0 THEN {safe.timer} ELSE {})
        \cup {runQueue[i].due : i \in 1..Len(runQueue)}
        \cup ruleTimers
        \cup (IF leave.phase = "alive"
              THEN leave.checkDues \cup (IF leave.choiceDue >= 0 THEN {leave.choiceDue} ELSE {})
              ELSE {})
        \cup (IF pluginView.initDue >= 0 THEN {pluginView.initDue} ELSE {})

TickStep ==
    IF PendingDues = {} THEN Quantum
    ELSE IF SetMin(PendingDues) - now < Quantum THEN SetMin(PendingDues) - now
    ELSE Quantum

\* Time passes only when no timer is due: a due timer fires first.
TickUntil(horizon) ==
    /\ TickStep > 0
    /\ now + TickStep <= horizon
    /\ \A i \in 1..Len(cycles) : cycles[i].queue = <<>>
    /\ now' = now + TickStep
    /\ UNCHANGED <<composition, saveVars, restVars, domVars, imeVars, navVars, coordVars>>

Tick == TickUntil(MaxTime)

(***************************************************************************)
(* TimerManager (the named-timer registry).                                *)
(***************************************************************************)
\* A clear that drops the registry entry and leaves the platform timer running.
TimerClearKeepsPlatform(t, id) ==
    [activeTimers |-> [t.activeTimers EXCEPT ![id] = NoTimer], platform |-> t.platform]

\* TimerManager.clear(id)
TimerClear(t, id) ==
    IF t.activeTimers[id] = NoTimer THEN t
    ELSE [activeTimers |-> [t.activeTimers EXCEPT ![id] = NoTimer],
          platform |-> t.platform \ {t.activeTimers[id]}]

\* TimerManager.clearAll(): every registered timer is cleared on the platform
\* and the registry emptied.
clearAll(t) ==
    [activeTimers |-> [id \in DOMAIN t.activeTimers |-> NoTimer],
     platform |-> t.platform \ {t.activeTimers[id] : id \in DOMAIN t.activeTimers}]

\* A setTimeout that forgets to clear the timer already registered under id.
TimerSetTimeoutNoClear(t, id, content, timeout) ==
    LET rec == [id |-> id, due |-> now + timeout, content |-> content]
    IN [activeTimers |-> [t.activeTimers EXCEPT ![id] = rec],
        platform |-> t.platform \cup {rec}]

\* TimerManager.setTimeout(id, callback, timeout); the callback is the closure
\* of debouncedSave, which captures the content.
TimerSetTimeout(t, id, content, timeout) ==
    LET c == TimerClear(t, id)
        rec == [id |-> id, due |-> now + timeout, content |-> content]
    IN [activeTimers |-> [c.activeTimers EXCEPT ![id] = rec],
        platform |-> c.platform \cup {rec}]

\* The registry's own part of a timeout firing: activeTimers.delete(id).
TimerFired(t, rec) ==
    [activeTimers |-> [t.activeTimers EXCEPT ![rec.id] = NoTimer],
     platform |-> t.platform \ {rec}]

(***************************************************************************)
(* UnifiedEditorManager (the Debounced Persistence Scheduler).             *)
(***************************************************************************)
IgnoreTags == {"history-merge", "content-sync", "selection-change"}

\* A filter that lets every change through.
shouldIgnoreEventNever(tags) == FALSE

\* shouldIgnoreEvent(tags): some tag of the change is on the ignore list.
shouldIgnoreEvent(tags) == tags \cap IgnoreTags # {}

\* A debounce that schedules the new timer without cancelling the pending one.
debouncedSaveNoClear(t, jsonContent) ==
    TimerSetTimeoutNoClear(t, noteId, jsonContent, DebounceDelay)

\* debouncedSave(jsonContent): the timers after it.
debouncedSave(t, jsonContent) ==
    TimerSetTimeout(TimerClear(t, noteId), noteId, jsonContent, DebounceDelay)

\* executeSave(jsonContent) up to its await: the save handler is invoked
\* unless there is no note id.
executeSave(jsonContent, via) ==
    IF noteId = NoNote
    THEN UNCHANGED <<inflight, lastSave>>
    ELSE /\ Len(inflight) < MaxInflight
         /\ inflight' = Append(inflight, [content |-> jsonContent, noteId |-> noteId])
         /\ lastSave' = [content |-> jsonContent, noteId |-> noteId, via |-> via,
                         composing |-> (composition = "active")]

setNoteId(n) ==
    /\ noteId' = n
    /\ lastSavedContent' = NoContent
    /\ UNCHANGED <<imeVars, navVars, coordVars, restVars, domVars, now, composition, tm, inflight, lastSave, lastChange, savesSince, burstLen>>

\* What a call did to the timers, as the registry and the platform show it.
TimerEffects(before, after) ==
    (IF after.platform \ before.platform # {} THEN {"scheduled"} ELSE {})
        \cup (IF before.platform \ after.platform # {} THEN {"cancelled"} ELSE {})

\* A comparison that never finds the content saved already.
isSavedContentNever(jsonContent) == FALSE

\* jsonContent === this.lastSavedContent
isSavedContent(jsonContent) == jsonContent = lastSavedContent

\* handleEditorChange(editorState, _editor, tags): the serialized content
\* stands for the editor state.
handleEditorChange(jsonContent, tags) ==
    IF shouldIgnoreEvent(tags) \/ isSavedContent(jsonContent)
    THEN UNCHANGED <<imeVars, navVars, coordVars, restVars, domVars, now, composition, noteId, lastSavedContent, tm, inflight,
                     lastSave, lastChange, savesSince, burstLen>>
    ELSE /\ burstLen < MaxBurst
         /\ tm' = debouncedSave(tm, jsonContent)
         /\ lastChange' = [content |-> jsonContent, noteId |-> noteId, at |-> now]
         /\ savesSince' = 0
         /\ burstLen' = IF lastChange # NoChange /\ now - lastChange.at < DebounceDelay
                        THEN burstLen + 1 ELSE 1
         /\ UNCHANGED <<imeVars, navVars, coordVars, restVars, domVars, now, composition, noteId, lastSavedContent, inflight,
                        lastSave>>

\* The debounce timer fires: the callback runs executeSave, then the registry
\* drops the entry.
DebounceFire(rec) ==
    /\ rec \in tm.platform
    /\ rec.due <= now
    /\ executeSave(rec.content, "debounce")
    /\ savesSince' = IF noteId = NoNote THEN savesSince ELSE savesSince + 1
    /\ tm' = TimerFired(tm, rec)
    /\ UNCHANGED <<imeVars, navVars, coordVars, restVars, domVars, now, composition, noteId, lastSavedContent, lastChange, burstLen>>

\* A forceSave that leaves the pending debounce timer alone.
forceSaveNoClear(jsonContent) ==
    /\ executeSave(jsonContent, "force")
    /\ UNCHANGED <<imeVars, navVars, coordVars, restVars, domVars, now, composition, noteId, lastSavedContent, lastChange, savesSince,
                   burstLen, tm>>

\* forceSave(jsonContent) up to the await inside executeSave.
forceSave(jsonContent) ==
    /\ tm' = TimerClear(tm, noteId)
    /\ executeSave(jsonContent, "force")
    /\ UNCHANGED <<imeVars, navVars, coordVars, restVars, domVars, now, composition, noteId, lastSavedContent, lastChange, savesSince,
                   burstLen>>

destroy ==
    /\ tm' = TimerClear(tm, noteId)
    /\ UNCHANGED <<imeVars, navVars, coordVars, lastCmd, listeners, leave, pluginView, miscVars, domVars, now, composition, noteId, lastSavedContent, inflight, lastSave,
                   lastChange, savesSince, burstLen>>

RemoveAt(q, i) == [j \in 1..(Len(q) - 1) |-> IF j < i THEN q[j] ELSE q[j + 1]]

\* The promise of options.onSave settles: executeSave continues after its
\* await (success) or lands in its catch (failure).
\* An executeSave without its try/catch, which records the content as saved
\* before it awaits the save handler.
executeSaveAfterAwaitUncaught(ok) ==
    IF ok THEN {"resolved", "snapshot", "cleared"} ELSE {"rejected", "snapshot", "threw"}

\* executeSave after its await: when options.onSave resolved, the snapshot is
\* assigned and options.onHistoryClear called; when it rejected (or threw),
\* the catch calls options.onError.
executeSaveAfterAwait(ok) ==
    IF ok THEN {"resolved", "snapshot", "cleared"} ELSE {"rejected", "reported"}

\* The promise of options.onSave settles.
SaveSettle(i, ok) ==
    /\ i \in 1..Len(inflight)
    /\ inflight' = RemoveAt(inflight, i)
    /\ lastSavedContent' = IF "snapshot" \in executeSaveAfterAwait(ok)
                           THEN inflight[i].content ELSE lastSavedContent
    /\ UNCHANGED <<imeVars, navVars, coordVars, restVars, domVars, now, composition, noteId, tm, lastSave, lastChange, savesSince,
                   burstLen>>

\* The call just made is the watched one: what it was passed and what it did
\* to the timers, the save handler and the snapshot, and what else it did.
Watched(op, jsonContent, tags, more) ==
    lastOp' = [op |-> op, content |-> jsonContent, tags |-> tags,
               same |-> (jsonContent = lastSavedContent),
               effects |-> TimerEffects(tm, tm') \cup more
                   \cup (IF Len(inflight') > Len(inflight) THEN {"saved"} ELSE {}),
               note |-> noteId]

\* The debounce timer that just fired is the watched call: note is the note id
\* its key was made of, the one active when the content was captured.
WatchedFire(rec) ==
    lastOp' = [op |-> "fire", content |-> rec.content, tags |-> {},
               same |-> (rec.content = lastSavedContent),
               effects |-> IF Len(inflight') > Len(inflight) THEN {"saved"} ELSE {},
               note |-> rec.id]

Unwatched == UNCHANGED lastOp

(***************************************************************************)
(* Composition events of the browser.                                      *)
(***************************************************************************)
\* The generations of the input handling: the ModernIMEHandler that calls the
\* editor's commands, the plugin's own beforeinput handler, and the
\* ModernIMEHandler that calls an editor interface.
Handler == "handler"
Plugin == "plugin"
Bridge == "bridge"

\* The listeners that keep an isComposing field.
Trackers == {Handler, Bridge}

\* compositionstart: handleCompositionStart of every installed handler.
CompositionStart ==
    /\ composition = "idle"
    /\ composition' = "active"
    /\ isComposing' = IF installed \cap Trackers # {} THEN TRUE ELSE isComposing
    /\ UNCHANGED <<now, saveVars, restVars, domVars, installed, useRestoreDOM, inputs, editorVars, navVars>>

\* compositionend: handleCompositionEnd of every installed handler.
CompositionEnd ==
    /\ composition = "active"
    /\ composition' = "idle"
    /\ isComposing' = IF installed \cap Trackers # {} THEN FALSE ELSE isComposing
    /\ UNCHANGED <<now, saveVars, restVars, domVars, installed, useRestoreDOM, inputs, editorVars, navVars>>

(***************************************************************************)
(* The DOM below the editable element, and the browser's writes to it.     *)
(***************************************************************************)
Range(q) == {q[i] : i \in 1..Len(q)}
IndexOf(q, n) == CHOOSE i \in 1..Len(q) : q[i] = n
Without(q, n) == SelectSeq(q, LAMBDA x : x # n)
InsertAt(q, i, n) == SubSeq(q, 1, i - 1) \o <<n>> \o SubSeq(q, i, Len(q))

ParentOf(d, n) ==
    IF \E c \in Containers : n \in Range(d[c])
    THEN CHOOSE c \in Containers : n \in Range(d[c])
    ELSE Null

NextSiblingOf(d, n) ==
    LET q == d[ParentOf(d, n)]
        i == IndexOf(q, n)
    IN IF i < Len(q) THEN q[i + 1] ELSE Null

\* The nodes below the editable element (with the element itself).
InTree(d, n) == n = Root \/ (ParentOf(d, n) # Null /\ (ParentOf(d, n) = Root \/ ParentOf(d, ParentOf(d, n)) = Root))

\* The subtree of the editable element: structure and nothing else.
TreeOf(d) == [c \in Containers |-> IF InTree(d, c) THEN d[c] ELSE <<>>]

ChildList(target, added, removed, next) ==
    [type |-> "childList", target |-> target, added |-> added, removed |-> removed,
     next |-> next, old |-> Null]

CharacterData(target, old) ==
    [type |-> "characterData", target |-> target, added |-> <<>>, removed |-> <<>>,
     next |-> Null, old |-> old]

\* Node.insertBefore(n, ref) on target: the DOM after it, the mutation records it
\* queues, and whether it returned (ok) or threw.
DomInsertBefore(d, target, n, ref) ==
    IF \/ target \notin Containers
       \/ n = target
       \/ (ref # Null /\ ref \notin Range(d[target]))
    THEN [ok |-> FALSE, dom |-> d, recs |-> <<>>]
    ELSE LET ref2 == IF n = ref THEN NextSiblingOf(d, n) ELSE ref
             par == ParentOf(d, n)
             d1 == IF par # Null THEN [d EXCEPT ![par] = Without(@, n)] ELSE d
             rem == IF par # Null
                    THEN <<ChildList(par, <<>>, <<n>>, NextSiblingOf(d, n))>>
                    ELSE <<>>
             pos == IF ref2 = Null THEN Len(d1[target]) + 1 ELSE IndexOf(d1[target], ref2)
         IN [ok |-> TRUE,
             dom |-> [d1 EXCEPT ![target] = InsertAt(@, pos, n)],
             recs |-> rem \o <<ChildList(target, <<n>>, <<>>, ref2)>>]

\* Node.removeChild(n) on target.
DomRemoveChild(d, target, n) ==
    IF target \notin Containers \/ n \notin Range(d[target])
    THEN [ok |-> FALSE, dom |-> d, recs |-> <<>>]
    ELSE [ok |-> TRUE,
          dom |-> [d EXCEPT ![target] = Without(@, n)],
          recs |-> <<ChildList(target, <<>>, <<n>>, NextSiblingOf(d, n))>>]

\* Node.replaceChild(n, old) on target, for a detached n: one record.
DomReplaceChild(d, target, n, old) ==
    LET q == d[target]
        i == IndexOf(q, old)
    IN [ok |-> TRUE,
        dom |-> [d EXCEPT ![target] = [q EXCEPT ![i] = n]],
        recs |-> <<ChildList(target, <<n>>, <<old>>, NextSiblingOf(d, old))>>]

\* Element.replaceChildren() on target: every child goes, in one record.
DomClearChildren(d, target) ==
    [ok |-> TRUE,
     dom |-> [d EXCEPT ![target] = <<>>],
     recs |-> <<ChildList(target, <<>>, d[target], Null)>>]

TreeNodes(d) == {n \in Nodes \cup {Root} : InTree(d, n)}

(***************************************************************************)
(* restoreDOM: one cycle per call.  variant "simple" is restore-dom.ts,    *)
(* variant "filtered" the generation with restoreTypes, shouldRestore and  *)
(* excludeNodes.                                                           *)
(***************************************************************************)
\* The options callers pass: none (the defaults), or those of the IME handler
\* of simple-ime-fix.ts.
DefaultOptions == "default"
ImeOptions == "ime"

\* The editor's own structural nodes, which the IME handler's excludeNodes names.
EditorChrome == {Root}
Spans == {}

\* observer.observe(element, options): whether characterData records are asked for.
ObservesCharacterData(c) == c.variant = "simple"

\* shouldRestore of the IME handler: a childList record that adds a text node or a span.
shouldRestore(c, rec) ==
    c.options = ImeOptions =>
        /\ rec.type = "childList"
        /\ \E n \in Range(rec.added) : n \in TextNodes \/ n \in Spans

excludeNodes(c, n) == c.options = ImeOptions /\ n \in EditorChrome

\* The filter of the "filtered" generation (restoreTypes defaults to childList,
\* skipCharacterData to true).
Qualifies(c, rec) ==
    /\ rec.type = "childList"
    /\ shouldRestore(c, rec)

ReverseSeq(q) == [i \in 1..Len(q) |-> q[Len(q) + 1 - i]]

\* A DOM write during restoration whose exception nothing catches.
AfterWriteUncaught(st, res, catches) ==
    IF res.ok
    THEN [st EXCEPT !.dom = res.dom,
                    !.recs = @ \o [i \in 1..Len(res.recs) |->
                                      [rec |-> res.recs[i], seen |-> st.seen]],
                    !.seen = @ \cup TreeNodes(res.dom),
                    !.writes = @ + 1]
    ELSE [st EXCEPT !.thrown = TRUE]

\* A DOM write made during restoration: st is the restoration so far (the DOM,
\* whether an exception has escaped, the records queued by its own writes with
\* the nodes seen below the element up to each, and the exceptions caught).
AfterWrite(st, res, catches) ==
    IF res.ok
    THEN [st EXCEPT !.dom = res.dom,
                    !.recs = @ \o [i \in 1..Len(res.recs) |->
                                      [rec |-> res.recs[i], seen |-> st.seen]],
                    !.seen = @ \cup TreeNodes(res.dom),
                    !.writes = @ + 1]
    ELSE IF catches THEN [st EXCEPT !.caught = @ + 1]
    ELSE [st EXCEPT !.thrown = TRUE]

RECURSIVE RestoreRemoved(_, _, _, _)
\* mutation.removedNodes.forEach(node => mutation.target.insertBefore(node, mutation.nextSibling))
RestoreRemoved(c, st, rec, k) ==
    IF k > Len(rec.removed) \/ st.thrown THEN st
    ELSE IF c.variant = "filtered" /\ excludeNodes(c, rec.removed[k])
    THEN RestoreRemoved(c, st, rec, k + 1)
    ELSE RestoreRemoved(c,
            AfterWrite(st, DomInsertBefore(st.dom, rec.target, rec.removed[k], rec.next),
                       c.variant = "filtered"),
            rec, k + 1)

RECURSIVE RemoveAdded(_, _, _, _)
\* mutation.addedNodes.forEach(node => mutation.target.removeChild(node)), or, in
\* the filtered generation, node.parentNode.removeChild(node) when it has a parent.
RemoveAdded(c, st, rec, k) ==
    IF k > Len(rec.added) \/ st.thrown THEN st
    ELSE IF c.variant = "filtered"
    THEN IF excludeNodes(c, rec.added[k]) \/ ParentOf(st.dom, rec.added[k]) = Null
         THEN RemoveAdded(c, st, rec, k + 1)
         ELSE RemoveAdded(c,
                 AfterWrite(st, DomRemoveChild(st.dom, ParentOf(st.dom, rec.added[k]),
                                               rec.added[k]), TRUE),
                 rec, k + 1)
    ELSE RemoveAdded(c,
            AfterWrite(st, DomRemoveChild(st.dom, rec.target, rec.added[k]), FALSE),
            rec, k + 1)

\* A reversal that also writes a characterData record's old value back.
ReverseOneWithCharacterData(c, st, rec) ==
    IF rec.type = "characterData"
    THEN [st EXCEPT !.text[rec.target] = rec.old, !.chars = @ + 1]
    ELSE RemoveAdded(c, RestoreRemoved(c, st, rec, 1), rec, 1)

\* The reversal of one record: characterData records are skipped.
ReverseOne(c, st, rec) ==
    IF rec.type = "characterData" THEN st
    ELSE RemoveAdded(c, RestoreRemoved(c, st, rec, 1), rec, 1)

RECURSIVE ReverseAll(_, _, _, _)
ReverseAll(c, st, recs, k) ==
    IF k > Len(recs) \/ st.thrown THEN st
    ELSE ReverseAll(c, [ReverseOne(c, st, recs[k]) EXCEPT !.handled = @ + 1], recs, k + 1)

\* A callback that handles the records in arrival order.
ArrivalOrder(recs) == recs

\* The records in the order the callback handles them: mutations.reverse().
HandlingOrder(recs) == ReverseSeq(recs)

\* The records the callback reverses.
ToReverse(c, recs) ==
    IF c.variant = "filtered" THEN SelectSeq(recs, LAMBDA r : Qualifies(c, r)) ELSE recs

\* The whole restoration of a delivered batch.
Restoration(c, d, recs) ==
    ReverseAll(c,
               [dom |-> d, thrown |-> FALSE, recs |-> <<>>, seen |-> TreeNodes(d),
                writes |-> 0, caught |-> 0, text |-> text, chars |-> 0, handled |-> 0],
               HandlingOrder(ToReverse(c, recs)), 1)

\* What an observer is handed of the records of a write: those whose target it
\* observes (the nodes below the element, or removed from below it since it
\* was attached).
Observed(c, tagged) ==
    LET mine == SelectSeq(tagged,
                    LAMBDA x : /\ x.rec.target \in c.tracked \cup x.seen
                               /\ (x.rec.type = "characterData" => ObservesCharacterData(c)))
    IN [i \in 1..Len(mine) |-> mine[i].rec]

\* A disconnect that leaves the observer variable set.
DisconnectKeepsObserver(c) == [c EXCEPT !.queue = <<>>]

\* disconnect(): the observer is dropped, with the records queued for it.
Disconnect(c) == [c EXCEPT !.connected = FALSE, !.queue = <<>>, !.tracked = {}]

NewCycle(variant, options, timeout, cb) ==
    [variant |-> variant, options |-> options, connected |-> TRUE, queue |-> <<>>,
     tracked |-> TreeNodes(dom), due |-> now + timeout, timerPending |-> TRUE,
     executed |-> 0, restored |-> 0, fallback |-> 0, writes |-> 0, chars |-> 0,
     caught |-> 0, escaped |-> 0, unhandled |-> 0,
     snap |-> TreeOf(dom), verdict |-> "none", cb |-> cb]

\* Every observer other than cycle i receives the records of a write.
Notify(cs, i, tagged, after) ==
    [j \in 1..Len(cs) |->
        IF j # i /\ cs[j].connected
        THEN [cs[j] EXCEPT !.queue = @ \o Observed(cs[j], tagged),
                           !.tracked = @ \cup TreeNodes(after)]
        ELSE cs[j]]

Tagged(recs, d) == [i \in 1..Len(recs) |-> [rec |-> recs[i], seen |-> TreeNodes(d)]]

NoMicrotask == \A i \in 1..Len(cycles) : cycles[i].queue = <<>>

EmptyTree == [c \in Containers |-> <<>>]

\* restoreDOM(element, execute, options) up to its return: the observer is
\* attached and the timeout set.
StartCycle(variant, options, timeout, cb) ==
    /\ Len(cycles) < MaxCycles
    /\ NoMicrotask
    /\ cycles' = Append(cycles, NewCycle(variant, options, timeout, cb))

\* The cycle's end, by either path: execute() has been called.
Finished(c, path, d, batch, writes) ==
    [c EXCEPT !.executed = @ + 1,
              !.writes = writes,
              !.restored = IF path = "observer" THEN @ + 1 ELSE @,
              !.fallback = IF path = "timeout" THEN @ + 1 ELSE @,
              !.verdict = IF path = "timeout" THEN "untouched"
                          ELSE IF Len(ToReverse(c, batch)) < Len(batch) THEN "partial"
                          ELSE IF \E k \in 1..Len(batch) : batch[k].type # "childList"
                          THEN IF TreeOf(d) = c.snap THEN "mixed" ELSE "mixed-differs"
                          ELSE IF TreeOf(d) = c.snap THEN "equal" ELSE "differs",
              !.snap = EmptyTree]

(***************************************************************************)
(* The editor the callbacks of restoreDOM act on, and what each generation *)
(* of the input handling does in its callback.                             *)
(***************************************************************************)
Newline == "\n"
HardBreak == "br"
BlockBreak == "para"

\* state.selection.from: the selection ends at the end of the document.
SelectionFrom == Len(doc) - selLen

NoTransaction == [op |-> "none", addToHistory |-> "unset", atEvent |-> FALSE, by |-> "none"]

\* A callback that only counts its calls.
CountOnly == [by |-> "none", inputType |-> "none", data |-> <<>>, ranges |-> FALSE,
              atEvent |-> FALSE]

\* dispatch(tr): the document and selection after it, and the transaction's
\* addToHistory meta ("unset" when the code does not set it).
Dispatch(op, newDoc, newSel, flag, cb) ==
    /\ doc' = newDoc
    /\ selLen' = newSel
    /\ lastTr' = [op |-> op, addToHistory |-> flag, atEvent |-> cb.atEvent, by |-> cb.by]
    /\ edits' = edits + 1

NoDispatch == UNCHANGED editorVars

\* tr.setMeta('addToHistory', this.isComposing ? false : true), evaluated when
\* the command runs.
HistoryFlag == IF isComposing THEN "false" ELSE "true"

insertText(cb) ==
    Dispatch("insertText", SubSeq(doc, 1, SelectionFrom) \o cb.data, 0, HistoryFlag, cb)

insertBreak(cb) ==
    Dispatch("insertBreak", SubSeq(doc, 1, SelectionFrom) \o <<HardBreak>>, 0,
             HistoryFlag, cb)

deleteBackward(cb) ==
    IF SelectionFrom > 0
    THEN Dispatch("deleteBackward", RemoveAt(doc, SelectionFrom), selLen, HistoryFlag, cb)
    ELSE NoDispatch

\* deleteRange deletes the current selection with editor.commands.deleteRange,
\* which sets no meta.
deleteRange(cb) ==
    IF selLen > 0
    THEN Dispatch("deleteRange", SubSeq(doc, 1, SelectionFrom), 0, "unset", cb)
    ELSE NoDispatch

executeEditorOperation(cb) ==
    CASE cb.inputType = "insertCompositionText" ->
            IF cb.data = <<>> THEN NoDispatch
            ELSE IF Newline \in Range(cb.data) THEN insertBreak(cb)
            ELSE insertText(cb)
      [] cb.inputType = "insertText" ->
            IF cb.data = <<>> THEN NoDispatch ELSE insertText(cb)
      [] cb.inputType = "deleteContentBackward" ->
            IF cb.ranges THEN deleteRange(cb) ELSE deleteBackward(cb)
      [] OTHER -> NoDispatch

\* The callback the plugin's beforeinput handler passes to restoreDOM.
PluginCallback(cb) ==
    CASE cb.inputType \in {"insertCompositionText", "insertText"} ->
            IF cb.data = <<>> THEN NoDispatch
            ELSE IF Newline \in Range(cb.data)
            THEN Dispatch("split",
                          SubSeq(doc, 1, SelectionFrom) \o <<BlockBreak>>
                              \o SubSeq(doc, SelectionFrom + 1, Len(doc)),
                          selLen, "false", cb)
            ELSE Dispatch("insertText", SubSeq(doc, 1, SelectionFrom) \o cb.data, 0,
                          "false", cb)
      [] cb.inputType = "deleteContentBackward" ->
            IF SelectionFrom > 0
            THEN Dispatch("delete", RemoveAt(doc, SelectionFrom), selLen, "false", cb)
            ELSE NoDispatch
      [] OTHER -> NoDispatch

\* The handler that calls the editor interface: its transactions carry no meta.
BridgeOperation(cb) ==
    CASE cb.inputType = "insertCompositionText" ->
            IF cb.data = <<>> THEN NoDispatch
            ELSE IF Newline \in Range(cb.data)
            THEN Dispatch("insertBreak", SubSeq(doc, 1, SelectionFrom) \o <<HardBreak>>, 0,
                          "unset", cb)
            ELSE Dispatch("insertText", SubSeq(doc, 1, SelectionFrom) \o cb.data, 0,
                          "unset", cb)
      [] cb.inputType = "insertText" ->
            IF cb.data = <<>> THEN NoDispatch
            ELSE Dispatch("insertText", SubSeq(doc, 1, SelectionFrom) \o cb.data, 0,
                          "unset", cb)
      [] cb.inputType = "deleteContentBackward" ->
            IF cb.ranges
            THEN Dispatch("deleteRange", SubSeq(doc, 1, SelectionFrom), 0, "unset", cb)
            ELSE Dispatch("deleteBackward",
                          IF SelectionFrom > 0 THEN RemoveAt(doc, SelectionFrom) ELSE doc,
                          selLen, "unset", cb)
      [] OTHER -> NoDispatch

\* execute(): the callback a cycle was given.
Execute(cb) ==
    CASE cb.by = Handler -> executeEditorOperation(cb)
      [] cb.by = Plugin -> PluginCallback(cb)
      [] cb.by = Bridge -> BridgeOperation(cb)
      [] OTHER -> NoDispatch

\* A timeout that detaches the observer and forgets the callback.
TimeoutFallbackWithoutExecute(c, d) == Disconnect(c)

\* The timeout's callback when the observer is still attached.
TimeoutFallback(c, d) == Finished(Disconnect(c), "timeout", d, <<>>, 0)

\* The MutationObserver callback of cycle i, for the records queued for it.
ObserverCallback(i) ==
    /\ i \in 1..Len(cycles)
    /\ cycles[i].connected
    /\ cycles[i].queue # <<>>
    /\ LET c == cycles[i]
           r == Restoration(c, dom, c.queue)
           others == Notify(cycles, i, r.recs, r.dom)
       IN /\ dom' = r.dom
          /\ cycles' = [others EXCEPT ![i] =
                IF r.thrown
                THEN [c EXCEPT !.queue = Observed(c, r.recs),
                               !.tracked = @ \cup TreeNodes(r.dom),
                               !.escaped = 1]
                ELSE [Finished(Disconnect(c), "observer", r.dom, c.queue, r.writes)
                         EXCEPT !.chars = r.chars, !.caught = r.caught,
                                !.unhandled = Len(ToReverse(c, c.queue)) - r.handled]]
          /\ text' = r.text
          /\ IF r.thrown THEN NoDispatch ELSE Execute(c.cb)

\* The timeout of cycle i: the fallback when the observer is still attached.
TimeoutFire(i) ==
    /\ i \in 1..Len(cycles)
    /\ cycles[i].timerPending
    /\ cycles[i].due <= now
    /\ NoMicrotask
    /\ cycles' = [cycles EXCEPT ![i] =
            IF cycles[i].connected
            THEN [TimeoutFallback(cycles[i], dom) EXCEPT !.timerPending = FALSE]
            ELSE [cycles[i] EXCEPT !.timerPending = FALSE]]
    /\ IF cycles[i].connected THEN Execute(cycles[i].cb) ELSE NoDispatch
    /\ UNCHANGED <<dom, text>>

\* A write of the browser to the DOM below the element, in the task that
\* follows a beforeinput event: it is recorded for every attached observer.
BrowserWrite(res) ==
    /\ \E i \in 1..Len(cycles) : cycles[i].connected
    /\ \A i \in 1..Len(cycles) : Len(cycles[i].queue) < MaxBatch
    /\ res.ok
    /\ dom' = res.dom
    /\ cycles' = Notify(cycles, 0, Tagged(res.recs, dom), res.dom)
    /\ UNCHANGED text

BrowserInsert(target, n, ref) ==
    /\ InTree(dom, target)
    /\ n # target
    /\ BrowserWrite(DomInsertBefore(dom, target, n, ref))

BrowserRemove(n) ==
    /\ InTree(dom, n)
    /\ BrowserWrite(DomRemoveChild(dom, ParentOf(dom, n), n))

BrowserReplace(target, n, old) ==
    /\ InTree(dom, target)
    /\ n # target
    /\ ParentOf(dom, n) = Null
    /\ old \in Range(dom[target])
    /\ BrowserWrite(DomReplaceChild(dom, target, n, old))

BrowserClear(target) ==
    /\ InTree(dom, target)
    /\ Len(dom[target]) >= 2
    /\ BrowserWrite(DomClearChildren(dom, target))

BrowserSetData(n, v) ==
    /\ InTree(dom, n)
    /\ v # text[n]
    /\ \E i \in 1..Len(cycles) : cycles[i].connected
    /\ \A i \in 1..Len(cycles) : Len(cycles[i].queue) < MaxBatch
    /\ text' = [text EXCEPT ![n] = v]
    /\ cycles' = Notify(cycles, 0, Tagged(<<CharacterData(n, text[n])>>, dom), dom)
    /\ UNCHANGED dom

\* The timeouts callers pass: the default, and the handlers' 50 ms.
DefaultTimeout == 100
HandlerTimeout == 50
BridgeTimeout == 500
ChoiceDelay == 500
HistoryLimit == 50
HiddenCheckDelay == 100

SaveIdle ==
    /\ noteId = NoNote
    /\ lastSavedContent = NoContent
    /\ tm = [activeTimers |-> [k \in NoteIds \cup {NoNote} |-> NoTimer], platform |-> {}]
    /\ inflight = <<>>
    /\ lastSave = NoSave
    /\ lastChange = NoChange
    /\ savesSince = 0
    /\ burstLen = 0
    /\ lastOp = NoOp

DomIdle ==
    /\ dom = [c \in Containers |-> <<>>]
    /\ text = [n \in TextNodes |-> "x"]
    /\ cycles = <<>>

ImeIdle ==
    /\ installed = {}
    /\ useRestoreDOM = FALSE
    /\ isComposing = FALSE
    /\ inputs = 0
    /\ script = 0
    /\ doc = <<>>
    /\ selLen = 0
    /\ lastTr = NoTransaction
    /\ edits = 0

NoJob == [url |-> "", id |-> 0]
NoNav == [url |-> "", by |-> "none", dirtyAtStart |-> FALSE, job |-> 0, ticket |-> "none",
          atArrival |-> "none", result |-> "none"]

NavIdle ==
    /\ guard = "none"
    /\ dirty = FALSE
    /\ isAutoSavingRef = FALSE
    /\ job = NoJob
    /\ jobs = 0
    /\ pendingNav = NoNav
    /\ arrival = NoNav
    /\ failures = 0
    /\ prompts = 0

(***************************************************************************)
(* The composition state trackers, the guarded callbacks and the gates on  *)
(* input rules and keys: their constants and their state before use.       *)
(***************************************************************************)
\* CompositionManager clears in setTimeout(..., 0), the IMEFix plugin in
\* setTimeout(..., 50); IMEStateManager resets isTyping after 200 ms and calls
\* typing fast below its fastTypingThreshold; createSmartOnChange retries after
\* its delay; handleTextInput looks at the text again after 10 ms.
ManagerClearDelay == 0
PluginClearDelay == 50
TypingDelay == 200
fastTypingThreshold == 200
SmartDelay == 200
TextInputDelay == 10

\* options.maxDelay of useAdvancedIMESafeCallback as callers may pass it (the
\* default of 5000 ms lies beyond the clock of the model).
MaxDelayOptions == {150}

NoDue == -1
Compositions == 0..MaxCompositions
NoPending == [args |-> NoContent, comp |-> 0]
NoRun == [args |-> NoContent, comp |-> 0, deferred |-> FALSE, active |-> FALSE, via |-> "none"]
NoCalls ==
    [made |-> 0,
     latest |-> [k \in Compositions |-> NoContent],
     ran |-> [k \in Compositions |-> NoContent],
     execs |-> [k \in Compositions |-> 0],
     lastRun |-> NoRun,
     lastCall |-> NoContent]
NoRule == [kind |-> "none", composing |-> FALSE, applied |-> FALSE]
NoKey == [key |-> "none", composing |-> FALSE, emptyListItem |-> FALSE, blocked |-> FALSE]
Paragraph == [type |-> "paragraph", level |-> 0, text |-> <<>>]

\* An update's notification: whether the compared state changed, whether
\* isComposing flipped, how many subscribers were called, and whether an
\* exception of a subscriber left the update.
NoNotice == [changed |-> FALSE, flipped |-> FALSE, told |-> 0, thrown |-> FALSE]

\* IMEStateManager.state as constructed; CompositionManager keeps isComposing
\* only.
InitialState ==
    [isComposing |-> FALSE, isTyping |-> FALSE, isDeleting |-> FALSE, lastInputType |-> "null",
     lastInputTime |-> 0, notice |-> NoNotice]

TrackIdle ==
    /\ tracker = "none"
    /\ trackerState = InitialState
    /\ trackerTimers = {}
    /\ compId = 0
    /\ wrapper = "none"
    /\ safe = [isComposingRef |-> FALSE, pending |-> NoPending, timer |-> NoDue, maxDelay |-> 0]
    /\ runQueue = <<>>
    /\ calls = NoCalls

GateIdle ==
    /\ block = Paragraph
    /\ ruleTimers = {}
    /\ lastRule = NoRule
    /\ lastKey = NoKey

CoordIdle == TrackIdle /\ GateIdle

NoCommand == [by |-> "none", op |-> "none", editor |-> FALSE, fault |-> "none", result |-> "none"]

\* The guard of a page no unload was attempted on.  choice, first, saves and
\* armed describe the current prompt: the user's choice, the first signal the
\* guard received after it, the auto-saves started since, and whether
\* handleBeforeUnload started or scheduled a save.
NoLeave ==
    [variant |-> "none", flag |-> FALSE, choiceDue |-> NoDue, checkDues |-> {},
     phase |-> "alive", visible |-> TRUE, asked |-> 0, choice |-> "none", first |-> "none",
     saves |-> 0, armed |-> FALSE]

\* No plugin view: by is the handler the view creates, initDue the time its
\* setTimeout(0) is due.
NoView == [by |-> "none", initDue |-> NoDue]

\* Nothing torn down.  savesAt is the number of save-handler invocations when
\* the scheduler was destroyed; editsAt and installedAt are the editor's
\* transactions and the element's listeners when the view's destroy()
\* returned.  handler tells that the view destroyed a handler; cyclesAt and
\* composingAt are the restoreDOM calls made and the handler's isComposing then.
NotDestroyed ==
    [scheduler |-> FALSE, view |-> FALSE, savesAt |-> 0, editsAt |-> 0, installedAt |-> {},
     handler |-> FALSE, cyclesAt |-> 0, composingAt |-> FALSE]

\* createEmptyHistoryState(): both stacks empty.  undoPushed and redoPushed
\* count the entries pushed to each stack since it was last emptied; an entry
\* is the number it had in that count.
NoHistory == [undoStack |-> <<>>, redoStack |-> <<>>, undoPushed |-> 0, redoPushed |-> 0]

MiscIdle == historyState = NoHistory

RestIdle ==
    /\ lastCmd = NoCommand
    /\ listeners = <<>>
    /\ leave = NoLeave
    /\ pluginView = NoView
    /\ destroyed = NotDestroyed
    /\ MiscIdle

\* The trees the editor has rendered when an input event arrives.
RenderedTrees ==
    { [c \in Containers |-> IF c = Root THEN <<"p">> ELSE <<"t">>],
      [c \in Containers |-> IF c = Root THEN <<"p", "u">> ELSE <<"t">>],
      [c \in Containers |-> IF c = Root THEN <<"p">> ELSE <<"t", "u">>],
      [c \in Containers |-> IF c = Root THEN <<"p", "t">> ELSE <<>>] }

(***************************************************************************)
(* restoreDOM on its own: calls with a callback that only counts, the      *)
(* browser's writes, the observers' callbacks and the timeouts.            *)
(***************************************************************************)
\* The calls of restoreDOM: either variant with no options, and the filtered
\* variant with the options of the IME handler.
RestoreCalls ==
    { [variant |-> "simple", options |-> DefaultOptions, timeout |-> DefaultTimeout],
      [variant |-> "simple", options |-> DefaultOptions, timeout |-> HandlerTimeout],
      [variant |-> "filtered", options |-> DefaultOptions, timeout |-> DefaultTimeout],
      [variant |-> "filtered", options |-> ImeOptions, timeout |-> BridgeTimeout] }

InitRestore ==
    /\ now = 0
    /\ composition = "idle"
    /\ SaveIdle
    /\ dom \in RenderedTrees
    /\ text = [n \in TextNodes |-> "x"]
    /\ cycles = <<>>
    /\ ImeIdle
    /\ NavIdle
    /\ RestIdle
    /\ CoordIdle

NextRestore ==
    \/ /\ TickUntil(MaxRestoreTime)
    \/ /\ cycles = <<>>
       /\ \E call \in RestoreCalls :
            StartCycle(call.variant, call.options, call.timeout, CountOnly)
       /\ UNCHANGED <<now, composition, saveVars, restVars, dom, text, imeVars, navVars, coordVars>>
    \/ /\ \E target \in Containers, n \in Nodes, ref \in Nodes \cup {Null} :
            BrowserInsert(target, n, ref)
       /\ UNCHANGED <<now, composition, saveVars, restVars, imeVars, navVars, coordVars>>
    \/ /\ \E n \in Nodes : BrowserRemove(n)
       /\ UNCHANGED <<now, composition, saveVars, restVars, imeVars, navVars, coordVars>>
    \/ /\ \E target \in Containers, n \in Nodes, old \in Nodes : BrowserReplace(target, n, old)
       /\ UNCHANGED <<now, composition, saveVars, restVars, imeVars, navVars, coordVars>>
    \/ /\ \E target \in Containers : BrowserClear(target)
       /\ UNCHANGED <<now, composition, saveVars, restVars, imeVars, navVars, coordVars>>
    \/ /\ \E n \in TextNodes, v \in TextValues : BrowserSetData(n, v)
       /\ UNCHANGED <<now, composition, saveVars, restVars, imeVars, navVars, coordVars>>
    \/ /\ \E i \in 1..MaxCycles : ObserverCallback(i)
       /\ UNCHANGED <<now, composition, saveVars, restVars, handlerVars, script, navVars, coordVars>>
    \/ /\ \E i \in 1..MaxCycles : TimeoutFire(i)
       /\ UNCHANGED <<now, composition, saveVars, restVars, handlerVars, script, navVars, coordVars>>

SpecRestore == InitRestore /\ [][NextRestore]_vars

\* C2: for every restoreDOM call, at most one of the observer path and the
\* timeout fallback runs, the completion callback is called by that path and
\* never twice, and once the timeout has expired one of them has run and the
\* callback has been called.
C2_ExactlyOnePathAndOneCallback ==
    \A i \in 1..Len(cycles) :
        /\ cycles[i].restored + cycles[i].fallback <= 1
        /\ cycles[i].executed = cycles[i].restored + cycles[i].fallback
        /\ ~cycles[i].timerPending => cycles[i].executed = 1
        /\ cycles[i].executed = 1 <=> ~cycles[i].connected

\* A call whose batch was observed and reversed, and whose timeout then expired.
C2_Witness ==
    \E i \in 1..Len(cycles) :
        /\ cycles[i].restored = 1
        /\ cycles[i].writes > 0
        /\ ~cycles[i].timerPending

\* C9: when the batch a cycle observed holds childList records only, the
\* subtree of the element is structurally what it was when the cycle began
\* at the moment the completion callback is called.
C9_ReversalRestoresStructure ==
    \A i \in 1..Len(cycles) : cycles[i].verdict # "differs"

\* A batch that took three DOM writes to reverse was reversed to the original
\* structure.
C9_Witness ==
    \E i \in 1..Len(cycles) :
        /\ cycles[i].verdict = "equal"
        /\ cycles[i].writes >= 3

\* C11: with default options a restoration writes no characterData record
\* back, also when the batch holds characterData records, and the childList
\* records of such a batch are still reversed: the subtree's structure is
\* what it was when the cycle began.
C11_CharacterDataIsNotReversed ==
    \A i \in 1..Len(cycles) :
        /\ cycles[i].chars = 0
        /\ cycles[i].verdict # "mixed-differs"

\* A batch with a characterData record and childList records was restored:
\* the structure is back, the changed text is still in place.
C11_Witness ==
    \E i \in 1..Len(cycles) :
        /\ cycles[i].restored = 1
        /\ cycles[i].verdict = "mixed"
        /\ cycles[i].writes >= 1
        /\ cycles[i].variant = "simple"
        /\ \E n \in TextNodes : text[n] # "x"

C10_TimeoutCompletesTheCycle ==
    \A i \in 1..Len(cycles) :
        now > cycles[i].due =>
            /\ cycles[i].executed = 1
            /\ ~cycles[i].connected
            /\ ~cycles[i].timerPending

\* The element never mutated, the timeout elapsed and its fallback ran.
C10_Witness ==
    \E i \in 1..Len(cycles) :
        /\ now > cycles[i].due
        /\ cycles[i].fallback = 1
        /\ cycles[i].verdict = "untouched"
        /\ cycles[i].executed = 1

(***************************************************************************)
(* Input events on the editable element with the handlers installed.       *)
(***************************************************************************)
Installs == {{Handler}, {Plugin, Handler}, {Bridge}}

\* The order the listeners of beforeinput are called in: the plugin's handler
\* is registered when the view is created, the handlers after it.
ListenerOrder == <<Plugin, Handler, Bridge>>

InputTypes == {"insertCompositionText", "insertText", "deleteContentBackward", "insertParagraph"}

\* The candidates of the composition U+4F60 U+597D, one string per character.
Ni == <<"ni">>
NiHao == <<"ni", "hao">>
InputData == {<<>>, Ni, NiHao, <<Newline>>}

restoreDOMInputTypes == {"insertCompositionText", "deleteContentBackward", "insertText"}

shouldUseRestoreDOMForInput(inputType) ==
    useRestoreDOM /\ inputType \in restoreDOMInputTypes

\* The restoreDOM call of one listener for one event.
handleWithRestoreDOM(by, inputType, data, ranges) ==
    LET cb == [by |-> by, inputType |-> inputType, data |-> data, ranges |-> ranges,
               atEvent |-> composition = "active"]
    IN IF by = Bridge
       THEN NewCycle("filtered", ImeOptions, BridgeTimeout, cb)
       ELSE NewCycle("simple", DefaultOptions, HandlerTimeout, cb)

\* One beforeinput event: every installed listener handles it, in order.
handleBeforeInput(inputType, data, ranges) ==
    /\ inputs < MaxInputs
    /\ NoMicrotask
    /\ LET called == IF shouldUseRestoreDOMForInput(inputType)
                     THEN SelectSeq(ListenerOrder, LAMBDA l : l \in installed)
                     ELSE <<>>
       IN /\ Len(cycles) + Len(called) <= MaxCycles
          /\ cycles' = cycles \o [k \in 1..Len(called) |->
                                     handleWithRestoreDOM(called[k], inputType, data, ranges)]
    /\ inputs' = inputs + 1
    /\ UNCHANGED <<now, composition, saveVars, restVars, dom, text, installed, useRestoreDOM,
                   isComposing, editorVars, navVars, coordVars>>

\* The user changes the selection: the last character selected, or none.
Select(n) ==
    /\ n <= Len(doc)
    /\ n # selLen
    /\ selLen' = n
    /\ UNCHANGED <<now, composition, saveVars, restVars, domVars, handlerVars, script, doc, lastTr,
                   edits, navVars, coordVars>>

\* The documents the editor is opened with.
OpenedDocuments == {<<>>, <<"a">>}

TypingTree == [c \in Containers |-> IF c = Root THEN <<"p">> ELSE <<"t">>]

InitIME ==
    /\ now = 0
    /\ composition = "idle"
    /\ SaveIdle
    /\ dom = TypingTree
    /\ text = [n \in TextNodes |-> "x"]
    /\ cycles = <<>>
    /\ installed \in Installs
    /\ useRestoreDOM \in BOOLEAN
    /\ isComposing = FALSE
    /\ inputs = 0
    /\ script = 0
    /\ doc \in OpenedDocuments
    /\ selLen = 0
    /\ lastTr = NoTransaction
    /\ edits = 0
    /\ NavIdle
    /\ RestIdle
    /\ CoordIdle

\* What the browser does to the DOM for an input, and the cycles' own steps.
ImeDomStep ==
    \/ /\ BrowserInsert("p", "u", Null)
       /\ UNCHANGED <<now, composition, saveVars, restVars, imeVars, navVars, coordVars>>
    \/ /\ \E v \in TextValues : BrowserSetData("t", v)
       /\ UNCHANGED <<now, composition, saveVars, restVars, imeVars, navVars, coordVars>>
    \/ /\ \E i \in 1..MaxCycles : ObserverCallback(i)
       /\ UNCHANGED <<now, composition, saveVars, restVars, handlerVars, script, navVars, coordVars>>
    \/ /\ \E i \in 1..MaxCycles : TimeoutFire(i)
       /\ UNCHANGED <<now, composition, saveVars, restVars, handlerVars, script, navVars, coordVars>>

NextIME ==
    \/ TickUntil(MaxRestoreTime)
    \/ CompositionStart /\ UNCHANGED <<script, coordVars>>
    \/ CompositionEnd /\ UNCHANGED <<script, coordVars>>
    \/ /\ inputs < MaxFreeInputs
       /\ \E inputType \in InputTypes, data \in InputData, ranges \in BOOLEAN :
            handleBeforeInput(inputType, data, ranges)
       /\ UNCHANGED script
    \/ \E n \in 0..1 : Select(n)
    \/ ImeDomStep

SpecIME == InitIME /\ [][NextIME]_vars

\* C35: one beforeinput event leads to at most one edit of the document, also
\* when the plugin's handler and the ModernIMEHandler both listen: the
\* restoreDOM callbacks never dispatch more transactions than there were events.
C35_OneEditPerInputEvent ==
    edits <= inputs

\* Every restoreDOM call made so far has called its callback.
Settled == \A i \in 1..Len(cycles) : cycles[i].executed = 1

\* C3: a transaction dispatched for an input event received while composing
\* carries addToHistory = false, and one dispatched for an event received
\* while not composing does not, whenever the restoreDOM callback runs.
C3_HistoryFlagFollowsTheEvent ==
    lastTr # NoTransaction =>
        (lastTr.addToHistory = "false" <=> lastTr.atEvent)

(***************************************************************************)
(* The composition of U+4F60 U+597D: compositionstart, beforeinput with    *)
(* the first candidate, compositionupdate, beforeinput with the second,    *)
(* compositionend, on a device that uses restoreDOM.                       *)
(***************************************************************************)
InitCompose ==
    /\ InitIME
    /\ useRestoreDOM
    /\ doc = <<>>

\* compositionupdate: no listener is registered for it.
CompositionUpdate ==
    /\ composition = "active"
    /\ UNCHANGED <<now, composition, saveVars, restVars, domVars, handlerVars, editorVars, navVars, coordVars>>

NextCompose ==
    \/ TickUntil(MaxRestoreTime)
    \/ script = 0 /\ CompositionStart /\ script' = 1 /\ UNCHANGED coordVars
    \/ script = 1 /\ handleBeforeInput("insertCompositionText", Ni, FALSE) /\ script' = 2
    \/ script = 2 /\ CompositionUpdate /\ script' = 3
    \/ script = 3 /\ handleBeforeInput("insertCompositionText", NiHao, FALSE) /\ script' = 4
    \/ script = 4 /\ CompositionEnd /\ script' = 5 /\ UNCHANGED coordVars
    \/ ImeDomStep

SpecCompose == InitCompose /\ [][NextCompose]_vars

\* C4: when the scripted composition has ended and every callback has run,
\* the document has received one edit and holds the final candidate only.
C4_OneEditForTheComposition ==
    (script = 5 /\ Settled) => (edits = 1 /\ doc = NiHao)

(***************************************************************************)
(* The page-leave guard: handleRouteChangeStart subscribed to the router's *)
(* routeChangeStart event.  guard "async" is the async handler, guard      *)
(* "throwing" the earlier handler that throws after starting the save.     *)
(* The router calls the subscribers of routeChangeStart synchronously and  *)
(* abandons the route change when one of them throws; a later route change *)
(* replaces the one it is loading.                                         *)
(***************************************************************************)
Urls == {"/a", "/b"}
Guards == {"async", "throwing"}

\* shouldAutoSave(): window.saveButtonStatus === 'save'.
shouldAutoSave(isDirty) == isDirty

\* Whether handleRouteChangeStart goes past its early return into the
\* auto-save branch.
EntersAutoSave(autoSaving, isDirty) == ~autoSaving /\ shouldAutoSave(isDirty)

\* A route change to url (a link the user follows, or router.push): the
\* router emits routeChangeStart and handleRouteChangeStart runs up to its
\* first await, or its throw.  ticket is what the caller has to show for
\* the change; autoSaving, isDirty and current are the guard's state when
\* the change starts.
RouteChange(url, by, ticket, autoSaving, isDirty, current) ==
    LET enters == EntersAutoSave(autoSaving, isDirty)
        nav == [url |-> url, by |-> by, dirtyAtStart |-> isDirty,
                job |-> IF enters THEN jobs + 1 ELSE 0, ticket |-> ticket,
                atArrival |-> "none", result |-> "none"]
    IN /\ isAutoSavingRef' = (autoSaving \/ enters)
       /\ job' = IF enters THEN [url |-> url, id |-> jobs + 1] ELSE current
       /\ jobs' = IF enters THEN jobs + 1 ELSE jobs
       /\ pendingNav' = IF enters /\ guard = "throwing" THEN NoNav ELSE nav

\* The user follows an in-app link to url.
Navigate(url) ==
    /\ jobs < MaxJobs
    /\ RouteChange(url, "user", "none", isAutoSavingRef, dirty, job)
    /\ UNCHANGED <<guard, dirty, arrival, failures, prompts>>
    /\ UNCHANGED <<now, composition, saveVars, restVars, domVars, imeVars, coordVars>>

\* The router has loaded the route it was changing to.
NavComplete ==
    /\ pendingNav # NoNav
    /\ arrival' = [pendingNav EXCEPT
                      !.atArrival = IF pendingNav.job = 0 THEN "none"
                                    ELSE IF pendingNav.job = job.id THEN "pending"
                                    ELSE "resolved"]
    /\ pendingNav' = NoNav
    /\ UNCHANGED <<guard, dirty, isAutoSavingRef, job, jobs, failures, prompts>>
    /\ UNCHANGED <<now, composition, saveVars, restVars, domVars, imeVars, coordVars>>

\* What became of the save a route change was waiting for.
Resolved(nav, id, result) ==
    IF nav # NoNav /\ nav.job = id THEN [nav EXCEPT !.result = result] ELSE nav

\* performAutoSave() settles with ok, and the handler continues after its
\* await: still is whether the save button still shows unsaved changes after
\* a successful save, confirmed the user's answer to window.confirm.
SaveResolve(ok, still, confirmed) ==
    /\ job # NoJob
    /\ ok => ~confirmed
    /\ ~ok => still = dirty
    /\ (ok \/ confirmed) => jobs < MaxJobs
    /\ dirty' = still
    /\ failures' = IF ok THEN failures ELSE failures + 1
    /\ prompts' = IF ok THEN prompts ELSE prompts + 1
    /\ arrival' = Resolved(arrival, job.id,
                           IF ok THEN "saved" ELSE IF confirmed THEN "confirmed" ELSE "declined")
    /\ IF ok
       THEN RouteChange(job.url, "guard", "saved", FALSE, still, NoJob)
       ELSE IF confirmed
       THEN RouteChange(job.url, "guard", "confirmed", FALSE, still, NoJob)
       ELSE /\ isAutoSavingRef' = FALSE
            /\ job' = NoJob
            /\ pendingNav' = Resolved(pendingNav, job.id, "declined")
            /\ UNCHANGED jobs
    /\ UNCHANGED guard
    /\ UNCHANGED <<now, composition, saveVars, restVars, domVars, imeVars, coordVars>>

\* The user edits the note: the save button shows unsaved changes.
Edit ==
    /\ ~dirty
    /\ dirty' = TRUE
    /\ UNCHANGED <<guard, isAutoSavingRef, job, jobs, pendingNav, arrival, failures, prompts>>
    /\ UNCHANGED <<now, composition, saveVars, restVars, domVars, imeVars, coordVars>>

InitNav ==
    /\ now = 0
    /\ composition = "idle"
    /\ SaveIdle
    /\ DomIdle
    /\ ImeIdle
    /\ CoordIdle
    /\ RestIdle
    /\ guard \in Guards
    /\ dirty \in BOOLEAN
    /\ isAutoSavingRef = FALSE
    /\ job = NoJob
    /\ jobs = 0
    /\ pendingNav = NoNav
    /\ arrival = NoNav
    /\ failures = 0
    /\ prompts = 0

NextNav ==
    \/ \E url \in Urls : Navigate(url)
    \/ NavComplete
    \/ \E ok \in BOOLEAN, still \in BOOLEAN, confirmed \in BOOLEAN :
            SaveResolve(ok, still, confirmed)
    \/ Edit

SpecNav == InitNav /\ [][NextNav]_vars

\* C6: with unsaved changes, a route change the guard started a save for is
\* not completed before that save has resolved true.
C6_NavigationWaitsForTheSave ==
    ~(arrival.job # 0 /\ arrival.atArrival = "pending" /\ arrival.result = "saved")

\* C7: every save that resolves false is followed by a confirmation prompt,
\* and a route change whose save resolved false is completed only when the
\* user confirmed.
C7_FailedSaveNeedsConfirmation ==
    /\ failures = prompts
    /\ ~(arrival.job # 0 /\ arrival.result = "declined")

\* C8: a route change that started with unsaved changes is completed only
\* with a resolved save or the user's confirmation to show for it.
C8_NoUnsavedDeparture ==
    arrival.dirtyAtStart => arrival.ticket \in {"saved", "confirmed"}

(***************************************************************************)
(* The scheduler as the editor component mounts it for one note: its note  *)
(* id prop is set on mount (or absent), and the session sees changes,      *)
(* compositions, explicit saves and teardown.                              *)
(***************************************************************************)
InitSave ==
    /\ now = 0
    /\ composition = "idle"
    /\ noteId \in NoteIds \cup {NoNote}
    /\ lastSavedContent = NoContent
    /\ tm = [activeTimers |-> [k \in NoteIds \cup {NoNote} |-> NoTimer], platform |-> {}]
    /\ inflight = <<>>
    /\ lastSave = NoSave
    /\ lastChange = NoChange
    /\ savesSince = 0
    /\ burstLen = 0
    /\ lastOp = NoOp
    /\ dom = [c \in Containers |-> <<>>]
    /\ text = [n \in TextNodes |-> "x"]
    /\ cycles = <<>>
    /\ ImeIdle
    /\ NavIdle
    /\ RestIdle
    /\ CoordIdle

NextSave ==
    \/ Tick
    \/ CompositionStart /\ UNCHANGED <<script, coordVars>>
    \/ CompositionEnd /\ UNCHANGED <<script, coordVars>>
    \/ \E c \in Contents, tags \in TagSets : handleEditorChange(c, tags) /\ Unwatched
    \/ \E rec \in tm.platform : DebounceFire(rec) /\ Unwatched
    \/ \E c \in Contents : forceSave(c) /\ Unwatched
    \/ destroy /\ Unwatched /\ UNCHANGED destroyed
    \/ \E i \in 1..MaxInflight, ok \in BOOLEAN : SaveSettle(i, ok) /\ Unwatched

SpecSave == InitSave /\ [][NextSave]_vars

\* C1: between a compositionstart and its compositionend the scheduler does
\* not invoke the save handler from its debounce timer.
C1_NoDebouncedSaveWhileComposing ==
    ~(lastSave.via = "debounce" /\ lastSave.composing)

\* C19: at any time at most one save callback is scheduled per note id, and it
\* is the one the registry holds for that id: a timer superseded by a newer
\* debounce request (or cleared by forceSave or destroy) is no longer pending,
\* so it can never fire.
C19_OneScheduledSavePerNote ==
    /\ \A id \in NoteIds \cup {NoNote} :
            Cardinality({rec \in tm.platform : rec.id = id}) <= 1
    /\ \A rec \in tm.platform : tm.activeTimers[rec.id] = rec

\* A second change arrived within the debounce window of the first, with other
\* content, and the one pending timer carries the content of the second.
C19_Witness ==
    /\ burstLen >= 2
    /\ lastChange.at > 0
    /\ \E rec \in tm.platform :
            /\ rec.content = lastChange.content
            /\ rec.due = lastChange.at + DebounceDelay

\* C20: at most one save is in flight per note id: no two invocations of the
\* save handler for the same note are awaiting it at the same time.
C20_OneSaveInFlightPerNote ==
    \A i, j \in 1..Len(inflight) :
        i # j => inflight[i].noteId # inflight[j].noteId

(***************************************************************************)
(* The scheduler's calls one by one: each change, explicit save and        *)
(* settled save is watched for what it did.                                *)
(***************************************************************************)
NextSched ==
    \/ TickUntil(MaxSchedTime)
    \/ \E c \in Contents, tags \in TagSets :
            handleEditorChange(c, tags) /\ Watched("change", c, tags, {})
    \/ \E rec \in tm.platform : DebounceFire(rec) /\ Unwatched
    \/ \E c \in Contents : forceSave(c) /\ Watched("force", c, {}, {})
    \/ destroy /\ Unwatched /\ UNCHANGED destroyed
    \/ \E i \in 1..MaxInflight, ok \in BOOLEAN :
            /\ SaveSettle(i, ok)
            /\ Watched("settle", inflight[i].content, {}, executeSaveAfterAwait(ok))

SpecSched == InitSave /\ [][NextSched]_vars

\* C21: a call of the change handler whose content is identical to the
\* last-saved snapshot schedules no debounce timer and performs no save.
C21_SavedContentSchedulesNothing ==
    (lastOp.op = "change" /\ lastOp.same) =>
        lastOp.effects \cap {"scheduled", "saved"} = {}

\* The handler was called, untagged, with the content a save of this note has
\* put into the snapshot.
C21_Witness ==
    /\ lastOp.op = "change"
    /\ lastOp.same
    /\ lastOp.tags = {}
    /\ lastOp.content = lastSavedContent
    /\ lastSavedContent \in Contents

\* C22: a change tagged history-merge, content-sync or selection-change
\* schedules no save, cancels no pending save and leaves the snapshot as it
\* was; only a change that carries none of these three tags and brings new
\* content schedules a save.
C22_IgnoredTagsHaveNoEffect ==
    lastOp.op = "change" =>
        /\ lastOp.tags \cap IgnoreTags # {} => lastOp.effects = {}
        /\ "scheduled" \in lastOp.effects =>
                lastOp.tags \cap IgnoreTags = {} /\ ~lastOp.same

\* A change with one of the three tags and new content arrived while a
\* debounce timer was pending, and the timer is still pending.
C22_Witness ==
    /\ lastOp.op = "change"
    /\ lastOp.tags \cap IgnoreTags # {}
    /\ ~lastOp.same
    /\ \E rec \in tm.platform : rec.content # lastOp.content

C24_FailedSaveIsReportedOnly ==
    lastOp.op = "settle" =>
        /\ "threw" \notin lastOp.effects
        /\ "rejected" \in lastOp.effects => lastOp.effects = {"rejected", "reported"}
        /\ lastOp.effects \cap {"snapshot", "cleared"} # {} => "resolved" \in lastOp.effects
        /\ "resolved" \notin lastOp.effects /\ ~lastOp.same => lastSavedContent # lastOp.content

\* A save of new content failed, and the snapshot is not that content.
C24_Witness ==
    /\ lastOp.op = "settle"
    /\ "rejected" \in lastOp.effects
    /\ ~lastOp.same
    /\ lastSavedContent # lastOp.content
    /\ lastSavedContent \in Contents

(***************************************************************************)
(* A burst of changes on one note: only changes, the clock, the debounce   *)
(* timer and the save handler's promise.                                   *)
(***************************************************************************)
InitBurst ==
    /\ now = 0
    /\ composition = "idle"
    /\ noteId \in NoteIds
    /\ lastSavedContent = NoContent
    /\ tm = [activeTimers |-> [k \in NoteIds \cup {NoNote} |-> NoTimer], platform |-> {}]
    /\ inflight = <<>>
    /\ lastSave = NoSave
    /\ lastChange = NoChange
    /\ savesSince = 0
    /\ burstLen = 0
    /\ lastOp = NoOp
    /\ dom = [c \in Containers |-> <<>>]
    /\ text = [n \in TextNodes |-> "x"]
    /\ cycles = <<>>
    /\ ImeIdle
    /\ NavIdle
    /\ RestIdle
    /\ CoordIdle

NextBurst ==
    \/ Tick
    \/ \E c \in Contents, tags \in TagSets : handleEditorChange(c, tags) /\ Unwatched
    \/ \E rec \in tm.platform : DebounceFire(rec) /\ Unwatched
    \/ \E i \in 1..MaxInflight, ok \in BOOLEAN : SaveSettle(i, ok) /\ Unwatched

SpecBurst == InitBurst /\ [][NextBurst]_vars

Invoked(c, args, comp, deferred, via) ==
    [c EXCEPT !.lastRun = [args |-> args, comp |-> comp, deferred |-> deferred,
                           active |-> (composition = "active"), via |-> via],
              !.execs[comp] = IF deferred THEN @ + 1 ELSE @,
              !.ran[comp] = IF deferred THEN args ELSE @]

\* The subscription of useIMESafeCallback and useAdvancedIMESafeCallback: the
\* guarded callback and the queue of setTimeout(0) invocations after the
\* tracker has told it composing.
Listener(sf, rq, composing) ==
    LET consume == sf.isComposingRef /\ ~composing /\ sf.pending # NoPending
    IN [safe |-> [sf EXCEPT !.isComposingRef = composing,
                            !.pending = IF consume THEN NoPending ELSE @,
                            !.timer = IF consume THEN NoDue ELSE @],
        runQueue |-> IF consume
                     THEN Append(rq, [args |-> sf.pending.args, comp |-> sf.pending.comp,
                                      due |-> now])
                     ELSE rq]

\* IMEStateManager.hasStateChanged(oldState, newState)
hasStateChanged(oldState, newState) ==
    \/ oldState.isComposing # newState.isComposing
    \/ oldState.isTyping # newState.isTyping
    \/ oldState.isDeleting # newState.isDeleting
    \/ oldState.lastInputType # newState.lastInputType

\* The test that decides whether the subscribers are told: the state manager
\* compares four fields, CompositionManager.setComposing (and the plugin's
\* updateCompositionState) isComposing only.
Notifies(kind, oldState, newState) ==
    IF kind = "state" THEN hasStateChanged(oldState, newState)
    ELSE oldState.isComposing # newState.isComposing

\* The subscribers called by listeners.forEach: all of them when each call is
\* inside try/catch (the state manager), else those up to the first that
\* throws (CompositionManager).
Caught(kind) == kind # "manager"

Throwers(ls) == {k \in 1..Len(ls) : ls[k] = "throws"}

Told(kind, ls) ==
    IF Caught(kind) \/ Throwers(ls) = {} THEN Len(ls)
    ELSE CHOOSE k \in Throwers(ls) : \A j \in Throwers(ls) : k <= j

\* updateState(updates), setComposing(composing): the state after it, with
\* the notice of what the subscribers were told.
Updated(kind, st, updates) ==
    LET new == [f \in DOMAIN st |-> IF f \in DOMAIN updates THEN updates[f] ELSE st[f]]
        tells == Notifies(kind, st, new)
    IN [new EXCEPT !.notice =
            [changed |-> tells,
             flipped |-> (st.isComposing # new.isComposing),
             told |-> IF tells THEN Told(kind, listeners) ELSE 0,
             thrown |-> tells /\ ~Caught(kind) /\ Throwers(listeners) # {}]]

\* CompositionManager.setComposing(composing), and updateCompositionState and
\* updateState of the state manager with isComposing: the state is set, the
\* subscribers are told, and the guarded callback's own listener runs when
\* isComposing flips.
setComposing(composing) ==
    LET r == Listener(safe, runQueue, composing)
    IN IF trackerState.isComposing # composing
       THEN /\ trackerState' = Updated(tracker, trackerState, [isComposing |-> composing])
            /\ IF wrapper \in {"simple", "advanced"}
               THEN safe' = r.safe /\ runQueue' = r.runQueue
               ELSE UNCHANGED <<safe, runQueue>>
       ELSE /\ trackerState' = Updated(tracker, trackerState, [isComposing |-> composing])
            /\ UNCHANGED <<safe, runQueue>>

\* The delay between compositionend and the clear of isComposing; -1 when the
\* tracker clears within the event.
ClearDelay(kind) ==
    IF kind = "manager" THEN ManagerClearDelay
    ELSE IF kind = "plugin" THEN PluginClearDelay
    ELSE -1

\* resetTypingTimer(): the typing timer is replaced by one due in 200 ms.
resetTypingTimer(timers) ==
    {t \in timers : t.kind # "typing"} \cup {[kind |-> "typing", due |-> now + TypingDelay, comp |-> 0]}

\* compositionstart on the document.
TrackedCompositionStart ==
    /\ compId < MaxCompositions
    /\ CompositionStart
    /\ compId' = compId + 1
    /\ setComposing(TRUE)
    /\ UNCHANGED <<script, tracker, trackerTimers, wrapper, calls, gateVars>>

\* compositionupdate: the manager and the plugin set composing again; the state
\* manager has no listener for it.
TrackedCompositionUpdate ==
    /\ composition = "active"
    /\ IF tracker \in {"manager", "plugin"}
       THEN setComposing(TRUE)
       ELSE UNCHANGED <<trackerState, safe, runQueue>>
    /\ UNCHANGED <<now, composition, saveVars, restVars, domVars, imeVars, navVars>>
    /\ UNCHANGED <<tracker, trackerTimers, compId, wrapper, calls, gateVars>>

\* compositionend: the manager and the plugin schedule the clear, the state
\* manager clears at once and restarts its typing timer.
TrackedCompositionEnd ==
    /\ CompositionEnd
    /\ IF ClearDelay(tracker) >= 0
       THEN /\ trackerTimers' = trackerTimers \cup
                    {[kind |-> "clear", due |-> now + ClearDelay(tracker), comp |-> compId]}
            /\ UNCHANGED <<trackerState, safe, runQueue>>
       ELSE /\ setComposing(FALSE)
            /\ trackerTimers' = IF tracker = "state" THEN resetTypingTimer(trackerTimers)
                                ELSE trackerTimers
    /\ UNCHANGED <<script, tracker, compId, wrapper, calls, gateVars>>

\* A timer of the tracker fires: the delayed clear, or the end of typing.
TrackerTimerFire(t) ==
    /\ t \in trackerTimers
    /\ t.due <= now
    /\ trackerTimers' = trackerTimers \ {t}
    /\ IF t.kind = "clear"
       THEN setComposing(FALSE)
       ELSE /\ trackerState' = Updated(tracker, trackerState,
                                        [isTyping |-> FALSE, isDeleting |-> FALSE])
            /\ UNCHANGED <<safe, runQueue>>
    /\ UNCHANGED <<now, composition, saveVars, restVars, domVars, imeVars, navVars>>
    /\ UNCHANGED <<tracker, compId, wrapper, calls, gateVars>>

\* The inputs the state manager listens to: beforeinput with its input type,
\* and the keydown of Backspace or Delete.
TrackedInputs == {"insertText", "deleteContentBackward", "keydown"}

\* beforeinput (or a Backspace or Delete keydown) on the document: the state
\* manager notes the typing and restarts its typing timer.
TrackedInput(inputType) ==
    /\ tracker = "state"
    /\ trackerState' = Updated(tracker, trackerState,
            IF inputType = "keydown"
            THEN [isTyping |-> TRUE, isDeleting |-> TRUE, lastInputTime |-> now]
            ELSE [isTyping |-> TRUE, isDeleting |-> (inputType = "deleteContentBackward"),
                  lastInputTime |-> now, lastInputType |-> inputType])
    /\ trackerTimers' = resetTypingTimer(trackerTimers)
    /\ UNCHANGED <<now, composition, saveVars, restVars, domVars, imeVars, navVars>>
    /\ UNCHANGED <<tracker, compId, wrapper, safe, runQueue, calls, gateVars>>

isFastTyping == trackerState.isTyping /\ now - trackerState.lastInputTime < fastTypingThreshold

shouldPauseExpensiveOperations == trackerState.isComposing \/ isFastTyping

(***************************************************************************)
(* The guarded callbacks: useIMESafeCallback ("simple"),                   *)
(* useAdvancedIMESafeCallback ("advanced") and createSmartOnChange         *)
(* ("smart").                                                              *)
(***************************************************************************)
\* The composition a call is made in: 0 outside any composition.
CallTag == IF composition = "active" THEN compId ELSE 0

\* The call is held back: it replaces the pending one, which is superseded.
Deferred(c, args) ==
    [c EXCEPT !.made = @ + 1,
              !.lastCall = args,
              !.latest = [k \in Compositions |->
                            IF k = CallTag THEN args
                            ELSE IF safe.pending # NoPending /\ k = safe.pending.comp
                            THEN NoContent
                            ELSE @[k]]]

\* safeCallback(args) of the two hooks, smartCallback(args) of the wrapper.
SafeCall(args) ==
    /\ wrapper # "none"
    /\ calls.made < MaxCalls
    /\ IF wrapper = "smart"
       THEN IF shouldPauseExpensiveOperations
            THEN /\ safe' = [safe EXCEPT !.pending = [args |-> args, comp |-> CallTag],
                                         !.timer = now + SmartDelay]
                 /\ calls' = Deferred(calls, args)
            ELSE /\ safe' = [safe EXCEPT !.timer = NoDue]
                 /\ calls' = Invoked([calls EXCEPT !.made = @ + 1, !.lastCall = args], args, CallTag, FALSE, "direct")
       ELSE IF ~safe.isComposingRef
            THEN /\ calls' = Invoked([calls EXCEPT !.made = @ + 1, !.lastCall = args], args, CallTag, FALSE, "direct")
                 /\ UNCHANGED safe
            ELSE /\ safe' = [safe EXCEPT !.pending = [args |-> args, comp |-> CallTag],
                                         !.timer = IF wrapper = "advanced"
                                                   THEN now + safe.maxDelay ELSE NoDue]
                 /\ calls' = Deferred(calls, args)
    /\ UNCHANGED <<now, composition, saveVars, restVars, domVars, imeVars, navVars>>
    /\ UNCHANGED <<tracker, trackerState, trackerTimers, compId, wrapper, runQueue, gateVars>>

\* The timeout of the guarded callback fires: maxDelay of the advanced hook
\* (the pending call is invoked), delay of the smart wrapper (the pending call
\* is invoked unless operations are still paused).
SafeTimeout ==
    /\ safe.timer # NoDue
    /\ safe.timer <= now
    /\ LET run == /\ safe.pending # NoPending
                  /\ wrapper = "smart" => ~shouldPauseExpensiveOperations
       IN /\ safe' = [safe EXCEPT !.timer = NoDue,
                                  !.pending = IF run THEN NoPending ELSE @]
          /\ calls' = IF run
                      THEN Invoked(calls, safe.pending.args, safe.pending.comp, TRUE, "timeout")
                      ELSE calls
    /\ UNCHANGED <<now, composition, saveVars, restVars, domVars, imeVars, navVars>>
    /\ UNCHANGED <<tracker, trackerState, trackerTimers, compId, wrapper, runQueue, gateVars>>

\* The setTimeout(0) of the hooks' listener runs: callback(...args).
RunQueued ==
    /\ runQueue # <<>>
    /\ Head(runQueue).due <= now
    /\ runQueue' = Tail(runQueue)
    /\ calls' = Invoked(calls, Head(runQueue).args, Head(runQueue).comp, TRUE, "end")
    /\ UNCHANGED <<now, composition, saveVars, restVars, domVars, imeVars, navVars>>
    /\ UNCHANGED <<tracker, trackerState, trackerTimers, compId, wrapper, safe, gateVars>>

\* The trackers with the guarded callbacks that read them.
TrackConfigs ==
    {[tracker |-> "manager", wrapper |-> "simple", maxDelay |-> 0],
     [tracker |-> "state", wrapper |-> "smart", maxDelay |-> 0],
     [tracker |-> "plugin", wrapper |-> "none", maxDelay |-> 0]}
        \cup {[tracker |-> "manager", wrapper |-> "advanced", maxDelay |-> d] : d \in MaxDelayOptions}

InitTrack ==
    /\ now = 0
    /\ composition = "idle"
    /\ SaveIdle
    /\ DomIdle
    /\ ImeIdle
    /\ NavIdle
    /\ RestIdle
    /\ GateIdle
    /\ \E cfg \in TrackConfigs :
        /\ tracker = cfg.tracker
        /\ wrapper = cfg.wrapper
        /\ safe = [isComposingRef |-> FALSE, pending |-> NoPending, timer |-> NoDue,
                   maxDelay |-> cfg.maxDelay]
    /\ trackerState = InitialState
    /\ trackerTimers = {}
    /\ compId = 0
    /\ runQueue = <<>>
    /\ calls = NoCalls

NextTrack ==
    \/ TickUntil(MaxTrackTime)
    \/ TrackedCompositionStart
    \/ TrackedCompositionUpdate
    \/ TrackedCompositionEnd
    \/ \E t \in trackerTimers : TrackerTimerFire(t)
    \/ \E inputType \in TrackedInputs : TrackedInput(inputType)
    \/ \E args \in Contents : SafeCall(args)
    \/ SafeTimeout
    \/ RunQueued

SpecTrack == InitTrack /\ [][NextTrack]_vars

\* C13: at every moment between a compositionstart and its compositionend the
\* tracker reports isComposing = true: a clear scheduled by an earlier
\* compositionend never takes effect after a newer compositionstart.
C13_ComposingThroughoutTheComposition ==
    composition = "active" => trackerState.isComposing

\* C16: a call held back by a guarded callback is invoked only when no
\* composition is active: not by the timeout, and not by a clear.
C16_NoDeferredRunWhileComposing ==
    ~(calls.lastRun.deferred /\ calls.lastRun.active)

\* Nothing is left that could still invoke a pending call: no composition, the
\* tracker idle, no timer and no queued invocation.
Quiescent ==
    /\ composition = "idle"
    /\ ~shouldPauseExpensiveOperations
    /\ trackerTimers = {}
    /\ safe.timer = NoDue
    /\ runQueue = <<>>

\* C17: a call held back is consumed once the composition is over: it is not
\* still pending when nothing is left that could invoke it.
C17_NoCallLeftPending ==
    Quiescent => safe.pending = NoPending

\* C18: the calls held back during one composition are run exactly once, with
\* the arguments of the latest of them.
C18_OneRunWithTheLatestArguments ==
    /\ \A k \in 1..MaxCompositions : calls.execs[k] <= 1
    /\ Quiescent =>
            \A k \in 1..MaxCompositions :
                calls.latest[k] # NoContent =>
                    calls.execs[k] = 1 /\ calls.ran[k] = calls.latest[k]

\* A clear of the current composition is pending: its compositionend came
\* less than the clearing delay ago.
ClearPending ==
    /\ composition = "idle"
    /\ \E t \in trackerTimers : t.kind = "clear" /\ t.comp = compId /\ now < t.due

\* C31: from a compositionend until its delayed clear is due the tracker still
\* reports isComposing = true, so a timer that fires within the clearing delay
\* observes the composition; once the clear has run and no composition has
\* begun, it reports false.
C31_StillComposingUntilTheClear ==
    /\ ClearPending => trackerState.isComposing
    /\ (/\ ClearDelay(tracker) >= 0
        /\ composition = "idle"
        /\ \A t \in trackerTimers : t.kind # "clear") => ~trackerState.isComposing

\* C38: when no call is held back or queued, the last invocation of the
\* underlying callback carried the arguments of the most recent call to the
\* guarded callback: a call released by the end of a composition does not run
\* after a later call that ran directly.
C38_LastRunIsTheLatestCall ==
    (/\ calls.lastRun.via # "none"
     /\ safe.pending = NoPending
     /\ safe.timer = NoDue
     /\ runQueue = <<>>) => calls.lastRun.args = calls.lastCall

(***************************************************************************)
(* The gates of the markdown extension and of the IMEFix plugin: the input *)
(* rules wrapped by createIMESafeInputRule, the heading conversion that    *)
(* handleTextInput defers by 10 ms, and the keydown handler.               *)
(***************************************************************************)
Chars == {"#", "-", " "}
Keys == {"Enter", "Tab", "Escape", "Backspace", "Delete",
         "ArrowUp", "ArrowDown", "ArrowLeft", "ArrowRight", "a"}
ListItem == [type |-> "listItem", level |-> 0, text |-> <<>>]
NoMatch == [type |-> "none", level |-> 0]

\* view.composing of the editor view: set by compositionstart, cleared by
\* compositionend.
ViewComposing == composition = "active"

\* The level of the heading pattern that the text before the cursor matches
\* (/^# $/ ... /^###### $/), 0 when it matches none.
HeadingLevel(t) ==
    IF /\ Len(t) >= 2
       /\ Len(t) <= 7
       /\ t[Len(t)] = " "
       /\ \A i \in 1..(Len(t) - 1) : t[i] = "#"
    THEN Len(t) - 1
    ELSE 0

\* The input rule whose find pattern the text matches: a heading rule, or the
\* bullet list rule /^[-*] $/.
RuleFor(t) ==
    IF HeadingLevel(t) > 0 THEN [type |-> "heading", level |-> HeadingLevel(t)]
    ELSE IF t = <<"-", " ">> THEN [type |-> "bulletList", level |-> 0]
    ELSE NoMatch

\* An input rule whose handler does not look at the composition.
createUnsafeInputRule(rule, composing) == rule # NoMatch

\* The handler that createIMESafeInputRule and createIMESafeTextblockRule
\* install: whether it returns a transaction (TRUE) or null.
createIMESafeInputRule(rule, composing) ==
    rule # NoMatch /\ ~composing

\* A timer callback that converts without looking at the composition again.
ConvertsWithoutRecheck(composing, t) == HeadingLevel(t) > 0

\* The timer callback of handleTextInput: whether it dispatches the conversion.
ConvertsAfterDelay(composing, t) ==
    ~composing /\ HeadingLevel(t) > 0

\* Text typed at the cursor reaches handleTextInput of the plugins: the input
\* rules and the heading handler, in either order.  A rule that returns a
\* transaction handles the input: the typed text is not inserted, and a
\* handler after it is not called.
TextInput(ch) ==
    /\ Len(block.text) < MaxText
    /\ LET t == Append(block.text, ch)
           rule == RuleFor(t)
           handled == createIMESafeInputRule(rule, ViewComposing)
       IN \E rulesFirst \in BOOLEAN :
            /\ block' = IF handled
                        THEN [block EXCEPT !.type = rule.type, !.level = rule.level]
                        ELSE [block EXCEPT !.text = t]
            /\ lastRule' = IF rule # NoMatch
                           THEN [kind |-> "rule", composing |-> ViewComposing,
                                 applied |-> handled]
                           ELSE lastRule
            /\ ruleTimers' = IF ViewComposing \/ (rulesFirst /\ handled)
                             THEN ruleTimers
                             ELSE ruleTimers \cup {now + TextInputDelay}
    /\ UNCHANGED lastKey
    /\ UNCHANGED <<now, composition, saveVars, restVars, domVars, imeVars, navVars, trackVars>>

\* The 10 ms timer of handleTextInput fires.
HeadingTimerFire(due) ==
    /\ due \in ruleTimers
    /\ due <= now
    /\ ruleTimers' = ruleTimers \ {due}
    /\ LET converts == ConvertsAfterDelay(ViewComposing, block.text)
       IN /\ block' = IF converts
                      THEN [type |-> "heading", level |-> HeadingLevel(block.text), text |-> <<>>]
                      ELSE block
          /\ lastRule' = IF HeadingLevel(block.text) > 0
                         THEN [kind |-> "timer", composing |-> ViewComposing,
                               applied |-> converts]
                         ELSE lastRule
    /\ UNCHANGED lastKey
    /\ UNCHANGED <<now, composition, saveVars, restVars, domVars, imeVars, navVars, trackVars>>

isCurrentlyComposing == trackerState.isComposing

problematicKeys == {"Backspace", "Delete", "ArrowUp", "ArrowDown"}

\* keydown of the IMEFix plugin: TRUE keeps the key from the editor's handlers.
keydown(key) ==
    LET emptyListItem == block.type = "listItem" /\ block.text = <<>>
        blocked == /\ isCurrentlyComposing
                   /\ IF key = "Enter" THEN ~emptyListItem ELSE key \in problematicKeys
    IN /\ lastKey' = [key |-> key, composing |-> isCurrentlyComposing,
                      emptyListItem |-> emptyListItem, blocked |-> blocked]
       /\ UNCHANGED <<block, ruleTimers, lastRule>>
       /\ UNCHANGED <<now, composition, saveVars, restVars, domVars, imeVars, navVars, trackVars>>

InitGate ==
    /\ now = 0
    /\ composition = "idle"
    /\ SaveIdle
    /\ DomIdle
    /\ ImeIdle
    /\ NavIdle
    /\ RestIdle
    /\ TrackIdle
    /\ block \in {Paragraph, ListItem}
    /\ ruleTimers = {}
    /\ lastRule = NoRule
    /\ lastKey = NoKey

NextGate ==
    \/ TickUntil(MaxGateTime)
    \/ CompositionStart /\ UNCHANGED <<script, coordVars>>
    \/ CompositionEnd /\ UNCHANGED <<script, coordVars>>
    \/ \E ch \in Chars : TextInput(ch)
    \/ \E due \in ruleTimers : HeadingTimerFire(due)

SpecGate == InitGate /\ [][NextGate]_vars

GuardedKeys == {"Enter", "Tab", "Escape", "Backspace", "Delete",
                "ArrowUp", "ArrowDown", "ArrowLeft", "ArrowRight"}

InitKeys ==
    /\ now = 0
    /\ composition = "idle"
    /\ SaveIdle
    /\ DomIdle
    /\ ImeIdle
    /\ NavIdle
    /\ RestIdle
    /\ tracker = "manager"
    /\ trackerState = InitialState
    /\ trackerTimers = {}
    /\ compId = 0
    /\ wrapper = "none"
    /\ safe = [isComposingRef |-> FALSE, pending |-> NoPending, timer |-> NoDue, maxDelay |-> 0]
    /\ runQueue = <<>>
    /\ calls = NoCalls
    /\ block \in {Paragraph, ListItem}
    /\ ruleTimers = {}
    /\ lastRule = NoRule
    /\ lastKey = NoKey

NextKeys ==
    \/ TrackedCompositionStart
    \/ TrackedCompositionUpdate
    \/ TrackedCompositionEnd
    \/ \E t \in trackerTimers : TrackerTimerFire(t)
    \/ \E key \in Keys : keydown(key)

SpecKeys == InitKeys /\ [][NextKeys]_vars

\* C15: while composing, the keydown gate keeps Enter, Tab, Escape, Backspace,
\* Delete and the four arrow keys from the editor's handlers, except Enter in
\* an empty list item; when not composing it blocks no key.
C15_GuardedKeysAreBlocked ==
    lastKey.key # "none" =>
        lastKey.blocked = (/\ lastKey.composing
                           /\ lastKey.key \in GuardedKeys
                           /\ ~(lastKey.key = "Enter" /\ lastKey.emptyListItem))


(***************************************************************************)
(* The trackers with two subscribers, one of which may throw, and the      *)
(* events each tracker listens to.                                         *)
(***************************************************************************)
ListenerSets == {<<"ok", "ok">>, <<"throws", "ok">>}

InitNotify ==
    /\ now = 0
    /\ composition = "idle"
    /\ SaveIdle
    /\ DomIdle
    /\ ImeIdle
    /\ NavIdle
    /\ GateIdle
    /\ lastCmd = NoCommand
    /\ leave = NoLeave
    /\ pluginView = NoView
    /\ destroyed = NotDestroyed
    /\ MiscIdle
    /\ listeners \in ListenerSets
    /\ tracker \in {"manager", "state"}
    /\ wrapper = "none"
    /\ safe = [isComposingRef |-> FALSE, pending |-> NoPending, timer |-> NoDue, maxDelay |-> 0]
    /\ trackerState = InitialState
    /\ trackerTimers = {}
    /\ compId = 0
    /\ runQueue = <<>>
    /\ calls = NoCalls

NextNotify ==
    \/ TickUntil(MaxTrackTime)
    \/ TrackedCompositionStart
    \/ TrackedCompositionUpdate
    \/ TrackedCompositionEnd
    \/ \E t \in trackerTimers : TrackerTimerFire(t)
    \/ \E inputType \in TrackedInputs : TrackedInput(inputType)

SpecNotify == InitNotify /\ [][NextNotify]_vars

\* C26: the subscribers of a tracker are called only by an update that flips
\* isComposing: no other update of the tracker's state calls them.
C26_ToldOnlyWhenComposingFlips ==
    trackerState.notice.told > 0 => trackerState.notice.flipped

\* C27: when a subscriber throws while the subscribers are told of a change,
\* every subscriber is still called and the exception does not leave the
\* update.
C27_ThrowingSubscriberIsIsolated ==
    (trackerState.notice.changed /\ Throwers(listeners) # {}) =>
        /\ trackerState.notice.told = Len(listeners)
        /\ ~trackerState.notice.thrown

(***************************************************************************)
(* The page-leave guard on a browser unload attempt: useAutoSaveOnLeave    *)
(* with the 500 ms timeout ("timer"), with the focus listener ("focus")    *)
(* and with the interaction listeners ("signals").  While the native       *)
(* prompt is open no script of the page runs; a page that is left goes     *)
(* through pagehide, visibilitychange and unload in one task.              *)
(***************************************************************************)
LeaveGuards == {"timer", "focus", "signals"}

\* performAutoSave() is called and not awaited.
AutoSaved(g) == [g EXCEPT !.saves = @ + 1]

\* The first signal after the prompt that tells the guard the user's choice.
Signalled(g, kind) ==
    IF g.choice # "none" /\ g.first = "none" THEN [g EXCEPT !.first = kind] ELSE g

\* handleBeforeUnload with unsaved changes: the ref is set, the native prompt
\* requested, and the timer variant starts its 500 ms timeout.
handleBeforeUnload(g) ==
    LET due == IF g.variant = "timer" THEN now + ChoiceDelay ELSE NoDue
    IN [g EXCEPT !.flag = TRUE, !.choiceDue = due, !.phase = "prompt", !.asked = @ + 1,
                 !.choice = "open", !.first = "none", !.saves = 0,
                 !.armed = (due # NoDue)]

\* beforeunload: a reload, a tab close or a navigation away.
BeforeUnload ==
    /\ leave.phase = "alive"
    /\ leave.asked < MaxPrompts
    /\ leave' = IF shouldAutoSave(dirty) THEN handleBeforeUnload(leave)
                ELSE [leave EXCEPT !.phase = "leaving"]
    /\ UNCHANGED <<now, composition, saveVars, domVars, imeVars, navVars, coordVars, lastCmd, listeners, pluginView, destroyed,
                   miscVars>>

\* The user answers the native prompt.
Choose(c) ==
    /\ leave.phase = "prompt"
    /\ leave' = [leave EXCEPT !.choice = c,
                              !.phase = IF c = "leave" THEN "leaving" ELSE "alive"]
    /\ UNCHANGED <<now, composition, saveVars, domVars, imeVars, navVars, coordVars, lastCmd, listeners, pluginView, destroyed,
                   miscVars>>

\* The page is left: handlePageHide, handleVisibilityChange (hidden) and
\* handleUnload run, and the page is gone.
Unloading ==
    /\ leave.phase = "leaving"
    /\ leave' = [Signalled(leave, "leave") EXCEPT
                    !.flag = FALSE,
                    !.choiceDue = IF leave.variant = "timer" THEN NoDue ELSE @,
                    !.visible = FALSE,
                    !.phase = "gone"]
    /\ UNCHANGED <<now, composition, saveVars, domVars, imeVars, navVars, coordVars, lastCmd, listeners, pluginView, destroyed,
                   miscVars>>

\* A handler of the hidden page that takes note of the signal and leaves the
\* ref set.
handleHiddenKeepsRef(g) ==
    IF g.variant = "timer" THEN g ELSE Signalled(g, "leave")

\* handleVisibilityChange with document.visibilityState === 'hidden': the ref
\* is reset; the timer variant looks again 100 ms later.
handleHidden(g) ==
    CASE g.variant = "signals" -> [Signalled(g, "leave") EXCEPT !.flag = FALSE]
      [] g.variant = "focus" -> IF g.flag THEN [Signalled(g, "leave") EXCEPT !.flag = FALSE] ELSE g
      [] g.variant = "timer" ->
            IF g.flag THEN [g EXCEPT !.checkDues = @ \cup {now + HiddenCheckDelay}] ELSE g

\* handleVisibilityChange with document.visibilityState === 'visible'.
handleVisible(g) ==
    IF g.variant = "signals" /\ g.flag
    THEN AutoSaved([Signalled(g, "stay") EXCEPT !.flag = FALSE])
    ELSE g

\* The page of a user who stayed is hidden or shown again.
VisibilityChange ==
    /\ leave.phase = "alive"
    /\ leave' = IF leave.visible
                THEN handleHidden([leave EXCEPT !.visible = FALSE])
                ELSE handleVisible([leave EXCEPT !.visible = TRUE])
    /\ UNCHANGED <<now, composition, saveVars, domVars, imeVars, navVars, coordVars, lastCmd, listeners, pluginView, destroyed,
                   miscVars>>

\* handleUserInteraction: a click, keydown, scroll or mousemove on the document.
UserInteraction ==
    /\ leave.phase = "alive"
    /\ leave.visible
    /\ leave.variant = "signals"
    /\ leave.flag
    /\ leave' = AutoSaved([Signalled(leave, "stay") EXCEPT !.flag = FALSE])
    /\ UNCHANGED <<now, composition, saveVars, domVars, imeVars, navVars, coordVars, lastCmd, listeners, pluginView, destroyed,
                   miscVars>>

\* handleFocus: the window regains focus.
Focus ==
    /\ leave.phase = "alive"
    /\ leave.visible
    /\ leave.variant = "focus"
    /\ leave.flag
    /\ leave' = AutoSaved([Signalled(leave, "stay") EXCEPT !.flag = FALSE])
    /\ UNCHANGED <<now, composition, saveVars, domVars, imeVars, navVars, coordVars, lastCmd, listeners, pluginView, destroyed,
                   miscVars>>

\* The 500 ms timeout of handleBeforeUnload fires: the page is still there.
ChoiceTimeout ==
    /\ leave.phase = "alive"
    /\ leave.choiceDue # NoDue
    /\ leave.choiceDue <= now
    /\ leave' = IF leave.flag
                THEN AutoSaved([Signalled(leave, "stay") EXCEPT !.flag = FALSE, !.choiceDue = NoDue])
                ELSE [leave EXCEPT !.choiceDue = NoDue]
    /\ UNCHANGED <<now, composition, saveVars, domVars, imeVars, navVars, coordVars, lastCmd, listeners, pluginView, destroyed,
                   miscVars>>

\* The 100 ms timeout of handleVisibilityChange fires: when the page is still
\* hidden the ref is reset and the 500 ms timeout cleared.
HiddenCheck(d) ==
    /\ leave.phase = "alive"
    /\ d \in leave.checkDues
    /\ d <= now
    /\ leave' = IF leave.visible
                THEN [leave EXCEPT !.checkDues = @ \ {d}]
                ELSE [Signalled(leave, "leave") EXCEPT
                        !.checkDues = @ \ {d}, !.flag = FALSE, !.choiceDue = NoDue]
    /\ UNCHANGED <<now, composition, saveVars, domVars, imeVars, navVars, coordVars, lastCmd, listeners, pluginView, destroyed,
                   miscVars>>

InitLeave ==
    /\ now = 0
    /\ composition = "idle"
    /\ SaveIdle
    /\ DomIdle
    /\ ImeIdle
    /\ CoordIdle
    /\ lastCmd = NoCommand
    /\ listeners = <<>>
    /\ pluginView = NoView
    /\ destroyed = NotDestroyed
    /\ MiscIdle
    /\ guard = "none"
    /\ dirty \in BOOLEAN
    /\ isAutoSavingRef = FALSE
    /\ job = NoJob
    /\ jobs = 0
    /\ pendingNav = NoNav
    /\ arrival = NoNav
    /\ failures = 0
    /\ prompts = 0
    /\ \E v \in LeaveGuards : leave = [NoLeave EXCEPT !.variant = v]

NextLeave ==
    \/ TickUntil(MaxLeaveTime)
    \/ Edit
    \/ BeforeUnload
    \/ \E c \in {"leave", "stay"} : Choose(c)
    \/ Unloading
    \/ VisibilityChange
    \/ UserInteraction
    \/ Focus
    \/ ChoiceTimeout
    \/ \E d \in leave.checkDues : HiddenCheck(d)

SpecLeave == InitLeave /\ [][NextLeave]_vars

\* C28: when beforeunload arrives with unsaved changes, the guard requests
\* the native prompt and, without waiting for the answer, starts or schedules
\* a save attempt.
C28_PromptAndSaveAttempt ==
    leave.choice # "none" => leave.armed

Interface == "interface"
Commands == {"insertText", "deleteRange", "deleteBackward", "insertBreak"}
Faults == {"none", "throws", "refuses"}

\* editorInterface.<command>: try { dispatch(tr); return true } catch
\* { return false }; insertBreak returns what setHardBreak() || splitBlock()
\* returns.
editorInterfaceResult(op, fault) ==
    IF fault = "throws" THEN "false"
    ELSE IF op = "insertBreak" /\ fault = "refuses" THEN "false"
    ELSE "true"

\* ModernIMEHandler.<command> over options.editorInterface: false without an
\* interface, else the interface's result inside try/catch.
bridgeResult(op, editor, fault) ==
    IF ~editor THEN "false" ELSE editorInterfaceResult(op, fault)

\* ModernIMEHandler.<command> over this.editor: a bare return without an
\* editor, the chained command outside any try/catch (deleteRange has one),
\* and no return value.
handlerResult(op, editor, fault) ==
    IF ~editor THEN "undefined"
    ELSE IF fault = "throws" /\ op # "deleteRange" THEN "thrown"
    ELSE "undefined"

commandResult(by, op, editor, fault) ==
    CASE by = Interface -> editorInterfaceResult(op, fault)
      [] by = Bridge -> bridgeResult(op, editor, fault)
      [] by = Handler -> handlerResult(op, editor, fault)

\* The input a command serves, as the callback record the handlers build.
CommandInput(by, op) ==
    [by |-> IF by = Interface THEN Bridge ELSE by,
     inputType |-> IF op \in {"insertText"} THEN "insertText"
                   ELSE IF op = "insertBreak" THEN "insertCompositionText"
                   ELSE "deleteContentBackward",
     data |-> IF op = "insertText" THEN Ni
              ELSE IF op = "insertBreak" THEN <<Newline>> ELSE <<>>,
     ranges |-> (op = "deleteRange"),
     atEvent |-> (composition = "active")]

\* One command of the bridge: the editor's document changes when the command
\* went through.
Command(by, op, editor, fault) ==
    /\ edits < MaxCommands
    /\ by = Interface => editor
    /\ lastCmd' = [by |-> by, op |-> op, editor |-> editor, fault |-> fault,
                   result |-> commandResult(by, op, editor, fault)]
    /\ IF editor /\ fault = "none" THEN Execute(CommandInput(by, op)) ELSE NoDispatch
    /\ UNCHANGED <<now, composition, saveVars, domVars, handlerVars, script, navVars, coordVars,
                   listeners, leave, pluginView, destroyed, miscVars>>

InitBridge ==
    /\ InitIME
    /\ ~useRestoreDOM

NextBridge ==
    \/ CompositionStart /\ UNCHANGED <<script, coordVars>>
    \/ CompositionEnd /\ UNCHANGED <<script, coordVars>>
    \/ \E n \in 0..1 : Select(n)
    \/ \E by \in {Interface, Bridge, Handler}, op \in Commands, editor \in BOOLEAN, fault \in Faults :
            Command(by, op, editor, fault)

SpecBridge == InitBridge /\ [][NextBridge]_vars

\* C25: every command of the bridge returns true or false and never throws;
\* when the editor's command throws, or the editor is missing, it returns
\* false.
C25_CommandsReturnABoolean ==
    lastCmd # NoCommand =>
        /\ lastCmd.result \in {"true", "false"}
        /\ (lastCmd.fault = "throws" \/ ~lastCmd.editor) => lastCmd.result = "false"

(***************************************************************************)
(* The scheduler when the editor moves from one note to another.           *)
(***************************************************************************)
NextNotes ==
    \/ TickUntil(MaxSchedTime)
    \/ \E c \in Contents : handleEditorChange(c, {}) /\ Watched("change", c, {}, {})
    \/ \E n \in NoteIds : n # noteId /\ setNoteId(n) /\ Unwatched
    \/ \E rec \in tm.platform : DebounceFire(rec) /\ WatchedFire(rec)
    \/ \E i \in 1..MaxInflight, ok \in BOOLEAN : SaveSettle(i, ok) /\ Unwatched

SpecNotes == InitSave /\ [][NextNotes]_vars

\* C33: the save event of a debounce timer carries the id of the note that was
\* active when its content was captured.
C33_SaveCarriesTheNoteOfItsContent ==
    (lastOp.op = "fire" /\ "saved" \in lastOp.effects) => lastSave.noteId = lastOp.note

(***************************************************************************)
(* The scheduler with the page events the timer registry listens to.       *)
(***************************************************************************)
PageSignals == {"beforeunload", "hidden"}

\* The listeners that the TimerManager constructor adds: beforeunload on the
\* window, and visibilitychange on the document when document.hidden.
PageSignal(kind) ==
    /\ tm' = clearAll(tm)
    /\ UNCHANGED <<now, composition, noteId, lastSavedContent, inflight, lastSave, lastChange,
                   savesSince, burstLen, domVars, imeVars, navVars, coordVars, restVars>>

NextPage ==
    \/ TickUntil(MaxSchedTime)
    \/ \E c \in Contents : handleEditorChange(c, {}) /\ Watched("change", c, {}, {})
    \/ \E rec \in tm.platform : DebounceFire(rec) /\ WatchedFire(rec)
    \/ \E c \in Contents : forceSave(c) /\ Watched("force", c, {}, {})
    \/ destroy /\ Watched("destroy", NoContent, {}, {}) /\ UNCHANGED destroyed
    \/ \E kind \in PageSignals : PageSignal(kind) /\ Watched(kind, NoContent, {}, {})
    \/ \E i \in 1..MaxInflight, ok \in BOOLEAN : SaveSettle(i, ok) /\ Unwatched

SpecPage == InitSave /\ [][NextPage]_vars

\* C34: a scheduled debounce timer is cancelled only by a newer change, by
\* forceSave or by destroy, so it runs otherwise; the page becoming hidden or
\* a beforeunload event does not cancel it.
C34_ScheduledSaveIsNotDiscarded ==
    "cancelled" \in lastOp.effects => lastOp.op \in {"change", "force", "destroy"}

(***************************************************************************)
(* Overlapping saves whose handler succeeds.                               *)
(***************************************************************************)
NextOverlap ==
    \/ TickUntil(MaxSchedTime)
    \/ \E c \in Contents : handleEditorChange(c, {}) /\ Unwatched
    \/ \E rec \in tm.platform : DebounceFire(rec) /\ Unwatched
    \/ \E c \in Contents : forceSave(c) /\ Unwatched
    \/ \E i \in 1..MaxInflight : SaveSettle(i, TRUE) /\ Watched("settle", inflight[i].content, {}, {})

SpecOverlap == InitSave /\ [][NextOverlap]_vars

\* C36: when every save started has completed, the last-saved snapshot is the
\* content of the save that was started last, in whatever order the save
\* handler's promises resolved.
C36_SnapshotIsTheLastStartedSave ==
    (inflight = <<>> /\ lastSave # NoSave) => lastSavedContent = lastSave.content

(***************************************************************************)
(* Changes only, with a save handler that succeeds, until the timers have  *)
(* drained.                                                                *)
(***************************************************************************)
NextDrain ==
    \/ Tick
    \/ \E c \in Contents : handleEditorChange(c, {}) /\ Watched("change", c, {}, {})
    \/ \E rec \in tm.platform : DebounceFire(rec) /\ Unwatched
    \/ \E i \in 1..MaxInflight : SaveSettle(i, TRUE) /\ Unwatched

SpecDrain == InitSave /\ [][NextDrain]_vars

\* No timer is pending and no save is in flight.
Drained == tm.platform = {} /\ inflight = <<>>

\* C37: once the timers have drained the last-saved snapshot is the content of
\* the most recent change.
C37_SnapshotIsTheLatestContent ==
    (Drained /\ noteId # NoNote /\ lastOp.op = "change") => lastSavedContent = lastOp.content

(***************************************************************************)
(* Teardown: the scheduler's destroy(), and the destroy() of the IME        *)
(* plugin's view with the handler it created.                              *)
(***************************************************************************)
\* The handlers a plugin view creates.
ViewHandlers == {Handler, Bridge}

\* ModernIMEHandler.destroy().  The handler that calls the editor's commands
\* gives each removeEventListener a function bound anew, which is not the one
\* that was added, so its listeners stay; the handler that calls an editor
\* interface removes the functions it had bound and added.
removeEventListeners(ls, by) == IF by = Handler THEN ls ELSE ls \ {by}

\* The callback of the view's setTimeout(0): the handler is constructed and
\* adds its listeners.
DeferredInit ==
    /\ pluginView.initDue >= 0
    /\ pluginView.initDue <= now
    /\ NoMicrotask
    /\ installed' = installed \cup {pluginView.by}
    /\ pluginView' = [pluginView EXCEPT !.initDue = NoDue]
    /\ UNCHANGED <<now, composition, saveVars, domVars, useRestoreDOM, isComposing, inputs,
                   editorVars, script, navVars, coordVars, lastCmd, listeners, leave, destroyed,
                   miscVars>>

\* destroy() of the plugin view: the handler is destroyed when the deferred
\* initialisation has created it.
ViewDestroy ==
    /\ pluginView.by # "none"
    /\ ~destroyed.view
    /\ NoMicrotask
    /\ installed' = IF pluginView.by \in installed
                    THEN removeEventListeners(installed, pluginView.by)
                    ELSE installed
    /\ destroyed' = [destroyed EXCEPT !.view = TRUE, !.editsAt = edits,
                                      !.installedAt = installed',
                                      !.handler = pluginView.by \in installed,
                                      !.cyclesAt = Len(cycles),
                                      !.composingAt = isComposing]
    /\ UNCHANGED <<now, composition, saveVars, domVars, useRestoreDOM, isComposing, inputs,
                   editorVars, script, navVars, coordVars, lastCmd, listeners, leave, pluginView,
                   miscVars>>

\* The scheduler's destroy().
SchedulerDestroyed == destroyed' = [destroyed EXCEPT !.scheduler = TRUE, !.savesAt = Len(inflight)]

\* Either a scheduler with its note, or a plugin view just created: its
\* setTimeout(0) is pending.
InitTeardown ==
    /\ now = 0
    /\ composition = "idle"
    /\ lastSavedContent = NoContent
    /\ tm = [activeTimers |-> [k \in NoteIds \cup {NoNote} |-> NoTimer], platform |-> {}]
    /\ inflight = <<>>
    /\ lastSave = NoSave
    /\ lastChange = NoChange
    /\ savesSince = 0
    /\ burstLen = 0
    /\ lastOp = NoOp
    /\ dom = TypingTree
    /\ text = [n \in TextNodes |-> "x"]
    /\ cycles = <<>>
    /\ installed = {}
    /\ useRestoreDOM = TRUE
    /\ isComposing = FALSE
    /\ inputs = 0
    /\ script = 0
    /\ doc = <<>>
    /\ selLen = 0
    /\ lastTr = NoTransaction
    /\ edits = 0
    /\ NavIdle
    /\ CoordIdle
    /\ lastCmd = NoCommand
    /\ listeners = <<>>
    /\ leave = NoLeave
    /\ destroyed = NotDestroyed
    /\ MiscIdle
    /\ \/ noteId \in NoteIds /\ pluginView = NoView
       \/ /\ noteId = NoNote
          /\ \E by \in ViewHandlers : pluginView = [by |-> by, initDue |-> 0]

NextTeardown ==
    \/ TickUntil(MaxTeardownTime)
    \/ /\ noteId # NoNote /\ ~destroyed.scheduler
       /\ \/ \E c \in Contents : handleEditorChange(c, {}) /\ Unwatched
          \/ \E n \in NoteIds : n # noteId /\ setNoteId(n) /\ Unwatched
          \/ destroy /\ Unwatched /\ SchedulerDestroyed
    \/ \E rec \in tm.platform : DebounceFire(rec) /\ Unwatched
    \/ /\ pluginView.by # "none" /\ ~destroyed.view
       /\ \E data \in {Ni, NiHao} : handleBeforeInput("insertText", data, FALSE)
       /\ UNCHANGED script
    \/ /\ cycles # <<>>
       /\ \E v \in TextValues : BrowserSetData("t", v)
       /\ UNCHANGED <<now, composition, saveVars, restVars, imeVars, navVars, coordVars>>
    \/ /\ \E i \in 1..MaxCycles : ObserverCallback(i)
       /\ UNCHANGED <<now, composition, saveVars, restVars, handlerVars, script, navVars, coordVars>>
    \/ /\ \E i \in 1..MaxCycles : TimeoutFire(i)
       /\ UNCHANGED <<now, composition, saveVars, restVars, handlerVars, script, navVars, coordVars>>
    \/ DeferredInit
    \/ ViewDestroy

SpecTeardown == InitTeardown /\ [][NextTeardown]_vars

\* C30: after the scheduler is destroyed its debounce timer invokes the save
\* handler no more, and after the plugin view is destroyed no restoreDOM
\* timeout dispatches a transaction to the editor and the deferred
\* initialisation adds no listener.
C30_NoTimerRunsAfterTeardown ==
    /\ destroyed.scheduler => Len(inflight) = destroyed.savesAt
    /\ destroyed.view => /\ edits = destroyed.editsAt
                         /\ installed = destroyed.installedAt

(***************************************************************************)
(* The editor's history state with its limited stacks.                     *)
(***************************************************************************)
\* Array.prototype.push as it is: the items are appended and nothing is
\* evicted.
pushUnlimited(stack, items) == stack \o items

\* The push that createLimitedHistoryState installs on a stack: the items are
\* appended, then splice(0, length - maxSize) drops the oldest entries.
push(stack, items) ==
    LET result == stack \o items
    IN IF Len(result) > HistoryLimit
       THEN SubSeq(result, Len(result) - HistoryLimit + 1, Len(result))
       ELSE result

\* The k entries pushed after n others.
Items(n, k) == [i \in 1..k |-> n + i]

\* undoStack.push(...items)
UndoPush(k) ==
    /\ historyState.undoPushed + historyState.redoPushed + k <= MaxPushes
    /\ historyState' = [historyState EXCEPT
            !.undoStack = push(@, Items(historyState.undoPushed, k)),
            !.undoPushed = @ + k]
    /\ UNCHANGED <<now, composition, saveVars, domVars, imeVars, navVars, coordVars, lastCmd,
                   listeners, leave, pluginView, destroyed>>

\* redoStack.push(...items)
RedoPush(k) ==
    /\ historyState.undoPushed + historyState.redoPushed + k <= MaxPushes
    /\ historyState' = [historyState EXCEPT
            !.redoStack = push(@, Items(historyState.redoPushed, k)),
            !.redoPushed = @ + k]
    /\ UNCHANGED <<now, composition, saveVars, domVars, imeVars, navVars, coordVars, lastCmd,
                   listeners, leave, pluginView, destroyed>>

\* clearHistory(): both stacks are emptied.
clearHistory ==
    /\ historyState # NoHistory
    /\ historyState' = NoHistory
    /\ UNCHANGED <<now, composition, saveVars, domVars, imeVars, navVars, coordVars, lastCmd,
                   listeners, leave, pluginView, destroyed>>

InitHistory ==
    /\ now = 0
    /\ composition = "idle"
    /\ SaveIdle
    /\ DomIdle
    /\ ImeIdle
    /\ NavIdle
    /\ CoordIdle
    /\ RestIdle

NextHistory ==
    \/ \E k \in 1..MaxItems : UndoPush(k)
    \/ \E k \in 1..MaxItems : RedoPush(k)
    \/ clearHistory

SpecHistory == InitHistory /\ [][NextHistory]_vars

\* The last entries of the n pushed, at most HistoryLimit of them, in push
\* order.
MostRecent(n) ==
    LET kept == IF n > HistoryLimit THEN HistoryLimit ELSE n
    IN [i \in 1..kept |-> n - kept + i]

\* C32: after any sequence of pushes each stack holds at most 50 entries, and
\* they are the most recently pushed ones in push order.
C32_StacksKeepTheMostRecent ==
    /\ Len(historyState.undoStack) <= HistoryLimit
    /\ Len(historyState.redoStack) <= HistoryLimit
    /\ historyState.undoStack = MostRecent(historyState.undoPushed)
    /\ historyState.redoStack = MostRecent(historyState.redoPushed)

\* More than 50 entries were pushed to the undo stack: the oldest are gone.
C32_Witness ==
    /\ historyState.undoPushed > HistoryLimit
    /\ Len(historyState.undoStack) = HistoryLimit
    /\ historyState.undoStack[1] = historyState.undoPushed - HistoryLimit + 1

(***************************************************************************)
(* Events on the editable element after the handler was destroyed.         *)
(***************************************************************************)
InitDestroy == InitTeardown /\ noteId = NoNote

NextDestroy ==
    \/ TickUntil(MaxTeardownTime)
    \/ CompositionStart /\ UNCHANGED <<script, coordVars>>
    \/ CompositionEnd /\ UNCHANGED <<script, coordVars>>
    \/ /\ \E data \in {Ni, NiHao} : handleBeforeInput("insertText", data, FALSE)
       /\ UNCHANGED script
    \/ /\ \E i \in 1..MaxCycles : TimeoutFire(i)
       /\ UNCHANGED <<now, composition, saveVars, restVars, handlerVars, script, navVars, coordVars>>
    \/ DeferredInit
    \/ ViewDestroy

SpecDestroy == InitDestroy /\ [][NextDestroy]_vars

\* C39: after destroy() of the handler has returned, the events on the editable
\* element change no state of the handler and start no restoreDOM cycle.
C39_DestroyedHandlerHearsNothing ==
    destroyed.handler =>
        /\ isComposing = destroyed.composingAt
        /\ Len(cycles) = destroyed.cyclesAt

(***************************************************************************)
(* The named-timer registry on its own, with callbacks that return, throw  *)
(* or register their own key again.                                        *)
(***************************************************************************)
Callbacks == {"returns", "throws", "again"}
RegistryDelays == {Quantum, DebounceDelay}

\* The function that TimerManager.setTimeout hands to the platform, when the
\* platform calls it: callback(), then activeTimers.delete(id).  A callback
\* that throws leaves the function before the delete; a callback that calls
\* setTimeout(id, ...) has replaced the entry before the delete.
timeoutFires(t, rec) ==
    LET fired == [activeTimers |-> t.activeTimers, platform |-> t.platform \ {rec}]
    IN IF rec.content = "throws" THEN fired
       ELSE IF rec.content = "again"
       THEN TimerFired(TimerSetTimeout(fired, rec.id, "returns", DebounceDelay), rec)
       ELSE TimerFired(fired, rec)

\* setManagedTimeout(id, callback, timeout)
RegistrySet(id, cb, timeout) ==
    /\ tm' = TimerSetTimeout(tm, id, cb, timeout)
    /\ UNCHANGED <<now, composition, noteId, lastSavedContent, inflight, lastSave, lastChange,
                   savesSince, burstLen, lastOp, domVars, imeVars, navVars, coordVars, restVars>>

\* clearManagedTimer(id)
RegistryClear(id) ==
    /\ tm.activeTimers[id] # NoTimer
    /\ tm' = TimerClear(tm, id)
    /\ UNCHANGED <<now, composition, noteId, lastSavedContent, inflight, lastSave, lastChange,
                   savesSince, burstLen, lastOp, domVars, imeVars, navVars, coordVars, restVars>>

\* A platform timer of the registry is due: its function is called.
RegistryFire(rec) ==
    /\ rec \in tm.platform
    /\ rec.due <= now
    /\ tm' = timeoutFires(tm, rec)
    /\ UNCHANGED <<now, composition, noteId, lastSavedContent, inflight, lastSave, lastChange,
                   savesSince, burstLen, lastOp, domVars, imeVars, navVars, coordVars, restVars>>

InitRegistry ==
    /\ now = 0
    /\ composition = "idle"
    /\ SaveIdle
    /\ DomIdle
    /\ ImeIdle
    /\ NavIdle
    /\ CoordIdle
    /\ RestIdle

NextRegistry ==
    \/ TickUntil(MaxSchedTime)
    \/ \E id \in NoteIds, cb \in Callbacks, timeout \in RegistryDelays : RegistrySet(id, cb, timeout)
    \/ \E id \in NoteIds : RegistryClear(id)
    \/ \E rec \in tm.platform : RegistryFire(rec)

SpecRegistry == InitRegistry /\ [][NextRegistry]_vars

\* exists(id)
exists(id) == tm.activeTimers[id] # NoTimer

\* C40: the registry holds an entry for a key exactly when a platform timer
\* registered under that key is pending, and the entry is that timer: it is
\* gone once the timer has fired, and a timer registered again by its own
\* callback has its entry.
C40_EntryExactlyWhilePending ==
    \A id \in NoteIds :
        /\ exists(id) <=> (\E rec \in tm.platform : rec.id = id)
        /\ exists(id) => tm.activeTimers[id] \in tm.platform

====
